---- MODULE Spec2Model ----
(***************************************************************************)
(* Document ingestion and report post-processing of the reporting chatbot: *)
(*   - the parse-file route (format detection, per-format parsers, size    *)
(*     governance of the returned text),                                   *)
(*   - parseCSV / parseCSVLine (table construction and column analysis),   *)
(*   - extractChartsFromContent (chart blocks of the model's reply),       *)
(*   - the generate-report route: formatChatHistory, buildUserMessage, the *)
(*     document context (formatPreParsedContent, processMultipleFiles) and *)
(*     the POST handler around the call of the language model,             *)
(*   - the chat store (uploadFile, removeFile, clearChat, sendMessage,     *)
(*     saveReport, login) with its calls interleaved at their awaits,      *)
(*   - parseExcel (the tables of a workbook), the files of a message on    *)
(*     their way into the context, and the persistence stand-in.           *)
(* Strings are sequences of one-character strings wherever the code looks  *)
(* inside them (endsWith, includes, split, the CSV scanner); a text whose  *)
(* inside is never inspected is kept as its length and its ending.         *)
(***************************************************************************)
EXTENDS Integers, Sequences, FiniteSets, TLC

VARIABLES
    request,        \* parse-file route: the multipart request being served
    response,       \* parse-file route: the JSON answer, NoResponse before it
    parser,         \* parse-file route: the branch of the routing chain taken
    csvInput,       \* parseCSV: the decoded file content (sequence of characters)
    csvTables,      \* parseCSV: the returned tables, NotParsed before the call
    content,        \* extractChartsFromContent: the model's text (tokens)
    processedContent, \* extractChartsFromContent: the text being rewritten
    charts,         \* extractChartsFromContent: the charts collected so far
    chartIndex,     \* extractChartsFromContent: the ordinal counter
    lastIndex,      \* extractChartsFromContent: chartRegex.lastIndex (0-based)
    now,            \* extractChartsFromContent: the value Date.now() returns
    chartSpec,      \* extractChartsFromContent: the value JSON.parse returned
    chartObject,    \* extractChartsFromContent: the chart built from it
    history,        \* formatChatHistory: the parsed chatHistory field
    formatted,      \* formatChatHistory: the messages returned
    promptInput,    \* buildUserMessage: query, documentsContext, includeGraphs
    userMessage,    \* buildUserMessage: the parts pushed, in order
    filesContent,   \* generate-report route: the parsed filesContent field
    uploadedFiles,  \* generate-report route: the raw files of the request
    documentsContext, \* generate-report route: the context built from them
    session,        \* generate-report route: what getSession() returns
    formData,       \* generate-report route: the fields of the request
    upstream,       \* generate-report route: what the collaborators will do
    effects,        \* generate-report route: calls made so far, in order
    reportResponse, \* generate-report route: the JSON answer
    store,          \* chat store: the state object of useChatStore
    uploads,        \* chat store: uploadFile calls waiting at an await
    sends,          \* chat store: sendMessage calls waiting at an await
    calls,          \* chat store: saveReport and login calls waiting
    nextId,         \* chat store: number of identifiers handed out so far
    lastOp,         \* chat store: the step taken last and the call it is of
    removed,        \* chat store: ids that removeFile or clearChat dropped
    workbook,       \* parseExcel: the sheets, as sheet_to_json returns them
    excelResult,    \* parseExcel: the value returned
    reports,        \* persistence stand-in: the module-level reports array
    clock,          \* persistence stand-in: the value Date.now() returns
    readyFiles,     \* sendMessage: the ready files of an accepted message
    pc              \* position of the operation under way

vars == <<request, response, parser, csvInput, csvTables, content,
          processedContent, charts, chartIndex, lastIndex, now,
          chartSpec, chartObject, history, formatted, promptInput,
          userMessage, filesContent, uploadedFiles, documentsContext,
          session, formData, upstream, effects, reportResponse,
          store, uploads, sends, calls, nextId, lastOp, removed,
          workbook, excelResult, reports, clock, readyFiles, pc>>

parseVars == <<request, response, parser>>
csvVars == <<csvInput, csvTables>>
chartVars == <<content, processedContent, charts, chartIndex, lastIndex, now>>
objectVars == <<chartSpec, chartObject>>
historyVars == <<history, formatted>>
messageVars == <<promptInput, userMessage>>
contextVars == <<filesContent, uploadedFiles, documentsContext>>
reportVars == <<session, formData, upstream, effects, reportResponse>>
storeVars == <<store, uploads, sends, calls, nextId, lastOp, removed>>
excelVars == <<workbook, excelResult>>
prismaVars == <<reports, clock>>
clientVars == <<storeVars, excelVars, prismaVars, readyFiles>>
promptVars == <<objectVars, historyVars, messageVars, contextVars, reportVars,
                clientVars>>

(***************************************************************************)
(* String helpers (JavaScript String methods on character sequences).      *)
(***************************************************************************)
Min(a, b) == IF a <= b THEN a ELSE b

Range(s) == {s[i] : i \in 1..Len(s)}

\* String.prototype.endsWith
EndsWith(s, suffix) ==
    /\ Len(suffix) <= Len(s)
    /\ SubSeq(s, Len(s) - Len(suffix) + 1, Len(s)) = suffix

\* String.prototype.startsWith
StartsWith(s, prefix) ==
    /\ Len(prefix) <= Len(s)
    /\ SubSeq(s, 1, Len(prefix)) = prefix

\* String.prototype.includes
Includes(s, sub) ==
    \E i \in 0..(Len(s) - Len(sub)) : SubSeq(s, i + 1, i + Len(sub)) = sub

ToLowerChar(c) ==
    CASE c = "A" -> "a" [] c = "B" -> "b" [] c = "C" -> "c" [] c = "D" -> "d"
      [] c = "E" -> "e" [] c = "F" -> "f" [] c = "G" -> "g" [] c = "H" -> "h"
      [] c = "I" -> "i" [] c = "J" -> "j" [] c = "K" -> "k" [] c = "L" -> "l"
      [] c = "M" -> "m" [] c = "N" -> "n" [] c = "O" -> "o" [] c = "P" -> "p"
      [] c = "Q" -> "q" [] c = "R" -> "r" [] c = "S" -> "s" [] c = "T" -> "t"
      [] c = "U" -> "u" [] c = "V" -> "v" [] c = "W" -> "w" [] c = "X" -> "x"
      [] c = "Y" -> "y" [] c = "Z" -> "z" [] OTHER -> c

\* String.prototype.toLowerCase
ToLowerCase(s) == [i \in 1..Len(s) |-> ToLowerChar(s[i])]

\* number of characters of the decimal rendering of n (template literal ${n})
RECURSIVE Digits(_)
Digits(n) == IF n < 10 THEN 1 ELSE 1 + Digits(n \div 10)

(***************************************************************************)
(* parse-file route: literals of the routing chain.                        *)
(***************************************************************************)
EXT_XLSX == <<".", "x", "l", "s", "x">>
EXT_XLS == <<".", "x", "l", "s">>
EXT_PDF == <<".", "p", "d", "f">>
EXT_DOCX == <<".", "d", "o", "c", "x">>
EXT_DOC == <<".", "d", "o", "c">>
EXT_CSV == <<".", "c", "s", "v">>
EXT_TXT == <<".", "t", "x", "t">>
SUB_SPREADSHEET == <<"s", "p", "r", "e", "a", "d", "s", "h", "e", "e", "t">>
SUB_EXCEL == <<"e", "x", "c", "e", "l">>
PFX_TEXT == <<"t", "e", "x", "t", "/">>
MIME_PDF ==
    <<"a", "p", "p", "l", "i", "c", "a", "t", "i", "o", "n", "/", "p", "d", "f">>
MIME_DOCX ==
    <<"a", "p", "p", "l", "i", "c", "a", "t", "i", "o", "n", "/", "v", "n", "d",
      ".", "o", "p", "e", "n", "x", "m", "l", "f", "o", "r", "m", "a", "t", "s",
      "-", "o", "f", "f", "i", "c", "e", "d", "o", "c", "u", "m", "e", "n", "t",
      ".", "w", "o", "r", "d", "p", "r", "o", "c", "e", "s", "s", "i", "n", "g",
      "m", "l", ".", "d", "o", "c", "u", "m", "e", "n", "t">>
MIME_MSWORD ==
    <<"a", "p", "p", "l", "i", "c", "a", "t", "i", "o", "n", "/", "m", "s", "w",
      "o", "r", "d">>
MIME_CSV == <<"t", "e", "x", "t", "/", "c", "s", "v">>

\* content-types a browser declares, beside the ones the chain names
MIME_XLSX ==
    <<"a", "p", "p", "l", "i", "c", "a", "t", "i", "o", "n", "/", "v", "n", "d",
      ".", "o", "p", "e", "n", "x", "m", "l", "f", "o", "r", "m", "a", "t", "s",
      "-", "o", "f", "f", "i", "c", "e", "d", "o", "c", "u", "m", "e", "n", "t",
      ".", "s", "p", "r", "e", "a", "d", "s", "h", "e", "e", "t", "m", "l", ".",
      "s", "h", "e", "e", "t">>
MIME_XLS ==
    <<"a", "p", "p", "l", "i", "c", "a", "t", "i", "o", "n", "/", "v", "n", "d",
      ".", "m", "s", "-", "e", "x", "c", "e", "l">>
MIME_PLAIN == <<"t", "e", "x", "t", "/", "p", "l", "a", "i", "n">>
MIME_OCTET ==
    <<"a", "p", "p", "l", "i", "c", "a", "t", "i", "o", "n", "/", "o", "c", "t",
      "e", "t", "-", "s", "t", "r", "e", "a", "m">>

\* const MAX_SIZE = 10 * 1024 * 1024
MAX_SIZE == 10485760

\* result.content.length > 50000 ; substring(0, 50000)
ContentCap == 50000

\* length of '\n\n[Content truncated for performance - full data available
\* in structured format]'
MarkerLen == 80

\* how far beyond ContentCap the extracted contents of the model reach
MaxOver == 2

(***************************************************************************)
(* Texts whose inside the handler never inspects: what kind of text it is, *)
(* its length (String.length) and whether it ends with the truncation      *)
(* marker.                                                                 *)
(***************************************************************************)
Text(kind, len, tail) == [kind |-> kind, len |-> len, tail |-> tail]

\* a field the JSON body does not carry (undefined)
Absent == Text("absent", 0, "other")

\* the empty string ''
EmptyText == Text("empty", 0, "other")

\* String.prototype.substring(0, n)
Substring(t, n) ==
    IF t.len <= n THEN t ELSE Text(t.kind, n, "other")

\* truncated + '\n\n[Content truncated for performance - ...]'
AppendMarker(t) == Text(t.kind, t.len + MarkerLen, "marker")

(***************************************************************************)
(* parse-file route: requests.                                             *)
(***************************************************************************)
FileNames ==
    { <<"a">> \o EXT_XLSX, <<"a">> \o EXT_XLS, <<"a">> \o EXT_PDF,
      <<"a">> \o EXT_DOCX, <<"a">> \o EXT_DOC, <<"a">> \o EXT_CSV,
      <<"a">> \o EXT_TXT, <<"A", ".", "P", "D", "F">>,
      <<"a", ".", "b", "i", "n">>, <<"p", "d", "f">> }

FileTypes ==
    { MIME_XLSX, MIME_XLS, MIME_PDF, MIME_DOCX, MIME_MSWORD, MIME_CSV,
      MIME_PLAIN, MIME_OCTET, <<>> }

\* lengths of the text the selected parser gets out of the bytes
TextLens ==
    {0, MarkerLen, ContentCap - 1} \cup (ContentCap .. (ContentCap + MaxOver))

\* the file's text: any length, ending with the marker's characters or not
FileTexts ==
    { Text("extracted", n, t) : n \in TextLens, t \in {"other"} }
    \cup { Text("extracted", n, "marker") : n \in {k \in TextLens : k >= MarkerLen} }

FileSizes == {ContentCap + MaxOver, MAX_SIZE, MAX_SIZE + 1}

\* length of the message of the error XLSX.read, pdfjs or mammoth throws on
\* these bytes; 0 when the library reads them
LibErrors == {0, 20}

\* formData is "ok" for a well-formed multipart body with a file, "nofile"
\* for a body without the 'file' field, "throws" when request.formData()
\* rejects
Requests ==
    [ formData : {"ok"}, name : FileNames, type : FileTypes, size : FileSizes,
      text : FileTexts, libError : LibErrors ]
    \cup [ formData : {"nofile", "throws"}, name : {<<>>}, type : {<<>>},
           size : {0}, text : {EmptyText}, libError : {0} ]

NoRequest == [formData |-> "none"]

(***************************************************************************)
(* parse-file route: the parsers.  Each returns what it contributes to     *)
(* `result`; threw = TRUE is an exception leaving the parser.              *)
(***************************************************************************)
Parsed(c, tables, summary, error) ==
    [ threw |-> FALSE, msgLen |-> 0, content |-> c, tables |-> tables,
      summary |-> summary, error |-> error ]

Thrown(msgLen) ==
    [ threw |-> TRUE, msgLen |-> msgLen, content |-> EmptyText,
      tables |-> "none", summary |-> "", error |-> "absent" ]

\* throw new Error(`Failed to parse Excel file: ${error.message}`)
parseExcel(req) ==
    IF req.libError > 0
    THEN Thrown(28 + req.libError)
    ELSE Parsed(req.text, "sheets", "excel", "absent")

\* the catch of parsePDFBuffer returns a result with `error` set
parsePDFBuffer(req) ==
    IF req.libError > 0
    THEN Parsed(EmptyText, "none", "", "pdfError")
    ELSE Parsed(req.text, "none", "pdfHead", "absent")

\* throw new Error(`Failed to parse DOCX: ${error.message}`)
parseDOCX(req) ==
    IF req.libError > 0
    THEN Thrown(22 + req.libError)
    ELSE Parsed(req.text, "none", "docx", "absent")

\* `Legacy .doc file: ${file.name}\n[Please convert to .docx format ...]`
LegacyDocNote(req) == Text("legacyDocNote", 18 + Len(req.name) + 58, "other")

\* `File: ${file.name}\nType: ${fileType}\nSize: ${file.size} bytes\n\n[Unsupported ...]`
UnsupportedNote(req) ==
    Text("unsupportedNote",
         6 + Len(req.name) + 7 + Len(req.type) + 7 + Digits(req.size) + 89,
         "other")

\* `File: ${file.name}\nParsing Error: ${parseError.message}`
ParseErrorNote(req, msgLen) ==
    Text("parseErrorNote", 6 + Len(req.name) + 16 + msgLen, "other")

(***************************************************************************)
(* parse-file route: the routing chain.                                    *)
(***************************************************************************)
SelectParser(fileName, fileType) ==
    IF \/ EndsWith(fileName, EXT_XLSX) \/ EndsWith(fileName, EXT_XLS)
       \/ Includes(fileType, SUB_SPREADSHEET) \/ Includes(fileType, SUB_EXCEL)
    THEN "excel"
    ELSE IF EndsWith(fileName, EXT_PDF) \/ fileType = MIME_PDF
    THEN "pdf"
    ELSE IF EndsWith(fileName, EXT_DOCX) \/ fileType = MIME_DOCX
    THEN "docx"
    ELSE IF EndsWith(fileName, EXT_DOC) \/ fileType = MIME_MSWORD
    THEN "doc"
    ELSE IF EndsWith(fileName, EXT_CSV) \/ fileType = MIME_CSV
    THEN "csv"
    ELSE IF StartsWith(fileType, PFX_TEXT) \/ EndsWith(fileName, EXT_TXT)
    THEN "text"
    ELSE "unsupported"

\* the body of the chosen branch: `result` after it.  The tables of the CSV
\* branch are those of parseCSV (below); here only their origin is kept.
RunParser(p, req) ==
    CASE p = "excel" -> parseExcel(req)
      [] p = "pdf" -> parsePDFBuffer(req)
      [] p = "docx" -> parseDOCX(req)
      [] p = "doc" -> Parsed(LegacyDocNote(req), "none", "legacyDoc", "absent")
      [] p = "csv" -> Parsed(req.text, "csv", "csv", "absent")
      [] p = "text" -> Parsed(req.text, "none", "text", "absent")
      [] OTHER -> Parsed(UnsupportedNote(req), "none", "unsupported",
                         "Unsupported file format")

\* the truncation step with the comparison off by one (>= for >)
TruncateOffByOne(c) ==
    IF c.len >= ContentCap THEN AppendMarker(Substring(c, ContentCap)) ELSE c

\* if (result.content && result.content.length > 50000) ...
Truncate(c) ==
    IF c.len > ContentCap THEN AppendMarker(Substring(c, ContentCap)) ELSE c

Json(status, success, c, tables, summary, error) ==
    [ status |-> status, success |-> success, content |-> c,
      tables |-> tables, summary |-> summary, error |-> error ]

NoResponse == Json(0, "absent", Absent, "absent", "absent", "absent")

\* the answer of POST to a request
ParseFilePOST(req) ==
    IF req.formData = "throws"
    THEN Json(500, "absent", Absent, "absent", "absent", "Failed to process file")
    ELSE IF req.formData = "nofile"
    THEN Json(400, "absent", Absent, "absent", "absent", "No file provided")
    ELSE IF req.size > MAX_SIZE
    THEN Json(400, "absent", Absent, "absent", "absent", "File too large")
    ELSE LET result == RunParser(SelectParser(ToLowerCase(req.name), req.type), req)
         IN  IF result.threw
             THEN Json(200, "false", ParseErrorNote(req, result.msgLen), "none",
                       "File uploaded but parsing failed", "parseError")
             ELSE Json(200, "true", Truncate(result.content), result.tables,
                       result.summary, "absent")

\* the branch the handler takes, "none" when it answers before routing
BranchOf(req) ==
    IF req.formData = "ok" /\ req.size <= MAX_SIZE
    THEN SelectParser(ToLowerCase(req.name), req.type)
    ELSE "none"

\* `result.content` before the truncation step, for a request that reaches it
ExtractedContent(req) == RunParser(BranchOf(req), req).content

(***************************************************************************)
(* Values of the variables of the operations that are not under way.       *)
(***************************************************************************)
NotParsed == <<"not parsed">>

ParseIdle == request = NoRequest /\ response = NoResponse /\ parser = "none"

CsvIdle == csvInput = <<>> /\ csvTables = NotParsed

ChartsIdle ==
    /\ content = <<>> /\ processedContent = <<>> /\ charts = <<>>
    /\ chartIndex = 0 /\ lastIndex = 0 /\ now = 0

Unset == <<"unset">>

ObjectIdle == chartSpec = Unset /\ chartObject = Unset

HistoryIdle == history = Unset /\ formatted = Unset

MessageIdle == promptInput = Unset /\ userMessage = Unset

ContextIdle ==
    filesContent = Unset /\ uploadedFiles = Unset /\ documentsContext = Unset

ReportIdle ==
    /\ session = Unset /\ formData = Unset /\ upstream = Unset
    /\ effects = <<>> /\ reportResponse = Unset

NoIds == [file |-> 0, send |-> 0, call |-> 0]

NoOp == [op |-> "none", id |-> 0]

StoreIdle ==
    /\ store = Unset /\ uploads = {} /\ sends = {} /\ calls = {}
    /\ nextId = NoIds /\ lastOp = NoOp /\ removed = {}

ExcelIdle == workbook = Unset /\ excelResult = Unset

PrismaIdle == reports = <<>> /\ clock = 0

AttachIdle == readyFiles = Unset

ClientIdle == StoreIdle /\ ExcelIdle /\ PrismaIdle /\ AttachIdle

PromptIdle ==
    /\ ObjectIdle /\ HistoryIdle /\ MessageIdle /\ ContextIdle /\ ReportIdle
    /\ ClientIdle

(***************************************************************************)
(* parse-file route: one request, received and answered.                   *)
(***************************************************************************)
ParseInit ==
    /\ request \in Requests
    /\ response = NoResponse
    /\ parser = "none"
    /\ pc = "received"
    /\ CsvIdle /\ ChartsIdle /\ PromptIdle

POST_parseFile ==
    /\ pc = "received"
    /\ response' = ParseFilePOST(request)
    /\ parser' = BranchOf(request)
    /\ pc' = "answered"
    /\ UNCHANGED <<request, csvVars, chartVars, promptVars>>

ParseNext == POST_parseFile

SpecParse == ParseInit /\ [][ParseNext]_vars

\* the request was answered after a parser had been selected
Routed == pc = "answered" /\ parser # "none"

\* the request was answered with the body built after the truncation step
ReturnedParsed == Routed /\ response.status = 200 /\ response.success = "true"

(***************************************************************************)
(* C1.  The parser of the filename's extension is selected whatever the    *)
(* declared content-type is; the content-type decides only when no known   *)
(* extension matches; when neither matches, the unsupported path is taken. *)
(***************************************************************************)
ParserOfExtension(fileName) ==
    IF EndsWith(fileName, EXT_XLSX) \/ EndsWith(fileName, EXT_XLS) THEN "excel"
    ELSE IF EndsWith(fileName, EXT_PDF) THEN "pdf"
    ELSE IF EndsWith(fileName, EXT_DOCX) THEN "docx"
    ELSE IF EndsWith(fileName, EXT_DOC) THEN "doc"
    ELSE IF EndsWith(fileName, EXT_CSV) THEN "csv"
    ELSE IF EndsWith(fileName, EXT_TXT) THEN "text"
    ELSE "unknown"

ParserOfContentType(fileType) ==
    IF Includes(fileType, SUB_SPREADSHEET) \/ Includes(fileType, SUB_EXCEL)
    THEN "excel"
    ELSE IF fileType = MIME_PDF THEN "pdf"
    ELSE IF fileType = MIME_DOCX THEN "docx"
    ELSE IF fileType = MIME_MSWORD THEN "doc"
    ELSE IF fileType = MIME_CSV THEN "csv"
    ELSE IF StartsWith(fileType, PFX_TEXT) THEN "text"
    ELSE "unknown"

C1_ExtensionTakesPrecedence ==
    Routed =>
        LET byExt == ParserOfExtension(ToLowerCase(request.name))
            byType == ParserOfContentType(request.type)
        IN  /\ byExt # "unknown" => parser = byExt
            /\ byExt = "unknown" /\ byType # "unknown" => parser = byType
            /\ byExt = "unknown" /\ byType = "unknown" => parser = "unsupported"

(***************************************************************************)
(* C2.  A failure inside the selected parser is never propagated: the      *)
(* handler answers 200 and the result has `error` set, with content or     *)
(* summary describing the failure.                                         *)
(***************************************************************************)
ParserFailed ==
    /\ Routed
    /\ request.libError > 0
    /\ parser \in {"excel", "pdf", "docx"}

C2_ParserFailureReported ==
    ParserFailed =>
        /\ response.status = 200
        /\ response.error # "absent"
        /\ \/ response.content.kind = "parseErrorNote"
           \/ response.summary = "File uploaded but parsing failed"

(***************************************************************************)
(* C3.  The returned text is at most ContentCap + MarkerLen characters; it *)
(* ends with the truncation marker exactly when the extracted content was  *)
(* longer than ContentCap; content of ContentCap characters or fewer is    *)
(* returned unchanged.                                                     *)
(***************************************************************************)
C3_MarkerExactlyWhenCut ==
    ReturnedParsed =>
        LET extracted == ExtractedContent(request)
        IN  /\ response.content.len <= ContentCap + MarkerLen
            /\ response.content.tail = "marker" <=> extracted.len > ContentCap
            /\ extracted.len <= ContentCap => response.content = extracted

\* C3 as amended: the returned text is at most ContentCap + MarkerLen
\* characters; extracted content longer than ContentCap is cut to its first
\* ContentCap characters followed by the marker; content of ContentCap
\* characters or fewer is returned unchanged (so it ends with the marker only
\* when the extracted content itself did).
C3_TruncationAmended ==
    ReturnedParsed =>
        LET extracted == ExtractedContent(request)
        IN  /\ response.content.len <= ContentCap + MarkerLen
            /\ extracted.len > ContentCap =>
                 /\ response.content.len = ContentCap + MarkerLen
                 /\ response.content.tail = "marker"
            /\ extracted.len <= ContentCap => response.content = extracted

\* a text longer than the cap was returned, cut and marked
C3_Witness ==
    /\ ReturnedParsed
    /\ ExtractedContent(request).len > ContentCap
    /\ response.content.tail = "marker"

(***************************************************************************)
(* parseCSV.  The file content is kept as content.split('\n'): the         *)
(* sequence of its lines, each a sequence of characters without '\n'       *)
(* (split and join are inverse of each other on such sequences).           *)
(***************************************************************************)
\* rows.slice(0, 1000)
RowCap == 1000

\* rows.slice(0, 10)
SampleSize == 10

\* rows.slice(0, 5)
PreviewSize == 5

\* longest line of the inputs that enumerate every line
MaxLineLen == 4

\* most rows of the second block of the inputs built from two blocks of rows
MaxTailRows == 2

\* Array.prototype.slice(0, n)
Slice(s, n) == SubSeq(s, 1, Min(n, Len(s)))

IsSpace(c) == c \in {" ", "\t", "\r", "\n"}

RECURSIVE TrimStart(_)
TrimStart(s) ==
    IF s # <<>> /\ IsSpace(s[1]) THEN TrimStart(Tail(s)) ELSE s

RECURSIVE TrimEnd(_)
TrimEnd(s) ==
    IF s # <<>> /\ IsSpace(s[Len(s)])
    THEN TrimEnd(SubSeq(s, 1, Len(s) - 1))
    ELSE s

\* String.prototype.trim
Trim(s) == TrimEnd(TrimStart(s))

DigitChars == {"0", "1", "2", "3", "4", "5", "6", "7", "8", "9"}

\* isNaN(parseFloat(s)): parseFloat skips leading white space and reads the
\* longest decimal prefix (optional sign, digits, or a point and a digit);
\* the literal Infinity is outside the characters of the inputs
ParseFloatIsNaN(s) ==
    LET t == TrimStart(s)
        u == IF t # <<>> /\ t[1] \in {"+", "-"} THEN Tail(t) ELSE t
    IN  ~ \/ u # <<>> /\ u[1] \in DigitChars
          \/ Len(u) >= 2 /\ u[1] = "." /\ u[2] \in DigitChars

\* first index (1-based) at which pat occurs in s, 0 when it does not
IndexOf(s, pat) ==
    LET hits == {i \in 1..(Len(s) - Len(pat) + 1) :
                    SubSeq(s, i, i + Len(pat) - 1) = pat}
    IN  IF hits = {} THEN 0 ELSE CHOOSE i \in hits : \A j \in hits : i <= j

\* the scanner of parseCSVLine that splits on every comma, quoted or not
RECURSIVE ScanLineIgnoringQuotes(_, _, _, _, _)
ScanLineIgnoringQuotes(line, i, result, current, inQuotes) ==
    IF i > Len(line)
    THEN Append(result, Trim(current))
    ELSE LET char == line[i]
         IN  IF char = "\""
             THEN ScanLineIgnoringQuotes(line, i + 1, result, current, ~inQuotes)
             ELSE IF char = ","
             THEN ScanLineIgnoringQuotes(line, i + 1,
                                         Append(result, Trim(current)), <<>>,
                                         inQuotes)
             ELSE ScanLineIgnoringQuotes(line, i + 1, result,
                                         Append(current, char), inQuotes)

parseCSVLineIgnoringQuotes(line) ==
    ScanLineIgnoringQuotes(line, 1, <<>>, <<>>, FALSE)

\* the for loop of parseCSVLine, from character i on
RECURSIVE ScanLine(_, _, _, _, _)
ScanLine(line, i, result, current, inQuotes) ==
    IF i > Len(line)
    THEN Append(result, Trim(current))
    ELSE LET char == line[i]
         IN  IF char = "\""
             THEN ScanLine(line, i + 1, result, current, ~inQuotes)
             ELSE IF char = "," /\ ~inQuotes
             THEN ScanLine(line, i + 1, Append(result, Trim(current)), <<>>,
                           inQuotes)
             ELSE ScanLine(line, i + 1, result, Append(current, char), inQuotes)

parseCSVLine(line) == ScanLine(line, 1, <<>>, <<>>, FALSE)

\* const val = row[index]; return val && !isNaN(parseFloat(val))
NumericCell(row, index) ==
    /\ index <= Len(row)
    /\ row[index] # <<>>
    /\ ~ParseFloatIsNaN(row[index])

\* the positions headers.filter((_, index) => rows.slice(0, 10).every(...)) keeps
NumericIndexes(headers, rows) ==
    {index \in 1..Len(headers) :
        \A r \in 1..Len(Slice(rows, SampleSize)) : NumericCell(rows[r], index)}

\* Array.prototype.filter by position: the elements of s at the positions in
\* keep, in order
RECURSIVE FilterIndexes(_, _, _)
FilterIndexes(s, keep, i) ==
    IF i > Len(s) THEN <<>>
    ELSE (IF i \in keep THEN <<s[i]>> ELSE <<>>) \o FilterIndexes(s, keep, i + 1)

\* headers.filter(h => !numericColumns.includes(h))
CategoricalColumns(headers, numericColumns) ==
    SelectSeq(headers, LAMBDA h : h \notin Range(numericColumns))

\* the insights with rowCount taken after the cap
InsightsCountingCappedRows(headers, rows) ==
    LET numericColumns ==
            FilterIndexes(headers, NumericIndexes(headers, rows), 1)
    IN  [ rowCount |-> Len(Slice(rows, RowCap)),
          columnCount |-> Len(headers),
          numericColumns |-> numericColumns,
          categoricalColumns |-> CategoricalColumns(headers, numericColumns),
          preview |-> Slice(rows, PreviewSize) ]

\* the `insights` object of the table
Insights(headers, rows) ==
    LET numericColumns ==
            FilterIndexes(headers, NumericIndexes(headers, rows), 1)
    IN  [ rowCount |-> Len(rows),
          columnCount |-> Len(headers),
          numericColumns |-> numericColumns,
          categoricalColumns |-> CategoricalColumns(headers, numericColumns),
          preview |-> Slice(rows, PreviewSize) ]

\* String.prototype.replace(pattern, replacement) with a string pattern and
\* a replacement without $ patterns: the first occurrence only
ReplaceFirst(s, pat, rep) ==
    LET i == IndexOf(s, pat)
    IN  IF i = 0 THEN s
        ELSE SubSeq(s, 1, i - 1) \o rep \o SubSeq(s, i + Len(pat), Len(s))

\* line.trim() is the empty string
Blank(line) == Trim(line) = <<>>

\* content.split('\n').filter(line => line.trim())
NonBlankLines(lines) == SelectSeq(lines, LAMBDA line : ~Blank(line))

\* parseCSV(content, fileName); content given as its lines
parseCSV(contentLines, fileName) ==
    LET lines == NonBlankLines(contentLines)
    IN  IF Len(lines) < 2 THEN <<>>
        ELSE LET headers == parseCSVLine(lines[1])
                 rows == [k \in 1..(Len(lines) - 1) |-> parseCSVLine(lines[k + 1])]
             IN  << [ name |-> ReplaceFirst(fileName, EXT_CSV, <<>>),
                      headers |-> headers,
                      rows |-> Slice(rows, RowCap),
                      insights |-> Insights(headers, rows) ] >>

(***************************************************************************)
(* parseCSV: inputs.  Two families: a header line and one line drawn from  *)
(* every line of up to MaxLineLen characters (the scanner's cases), and a  *)
(* header line followed by two blocks of equal rows (the sample of ten,    *)
(* the cap of a thousand, blank lines).                                    *)
(***************************************************************************)
LineChars == {"a", "1", ",", "\"", " "}

AllLines == UNION { [1..k -> LineChars] : k \in 0..MaxLineLen }

HeaderLines ==
    { <<"h", ",", "k">>, <<"h", ",", "h">>, <<"\"", "h", ",", "k", "\"", ",", "h">> }

BlockRows ==
    { <<"1", ",", "a">>, <<"a", ",", "1">>, <<"1", ",", "1">>,
      <<"a", ",", "a">>, <<",", "1">>, <<"1">>, <<" ">>,
      <<"\"", "1", ",", "a", "\"", ",", "1">> }

\* rows of the inputs longer than the cap
LongBlockRows == { <<"1", ",", "a">>, <<"a", ",", "1">>, <<" ">> }

SampleBlockCounts == {1} \cup ((SampleSize - 1)..(SampleSize + 1))

CapBlockCounts == (RowCap - 1)..(RowCap + 1)

Repeat(x, n) == [i \in 1..n |-> x]

CsvContents ==
    { <<h, l>> : h \in HeaderLines, l \in AllLines }
    \cup { <<h>> \o Repeat(r1, n1) \o Repeat(r2, n2) :
             h \in HeaderLines, r1 \in BlockRows, r2 \in BlockRows,
             n1 \in SampleBlockCounts, n2 \in 0..MaxTailRows }
    \cup { <<h>> \o Repeat(r1, n1) \o Repeat(r2, n2) :
             h \in HeaderLines, r1 \in LongBlockRows, r2 \in LongBlockRows,
             n1 \in CapBlockCounts, n2 \in 0..MaxTailRows }

CsvInputs == [ content : CsvContents, fileName : {<<"a">> \o EXT_CSV} ]

CsvInit ==
    /\ csvInput \in CsvInputs
    /\ csvTables = NotParsed
    /\ pc = "csv-called"
    /\ request = NoRequest /\ response = NoResponse /\ parser = "none"
    /\ ChartsIdle /\ PromptIdle

CallParseCSV ==
    /\ pc = "csv-called"
    /\ csvTables' = parseCSV(csvInput.content, csvInput.fileName)
    /\ pc' = "csv-returned"
    /\ UNCHANGED <<csvInput, parseVars, chartVars, promptVars>>

CsvNext == CallParseCSV

SpecCSV == CsvInit /\ [][CsvNext]_vars

\* parseCSV has returned a table
TableBuilt == pc = "csv-returned" /\ csvTables # <<>>

\* the lines of the input that hold something beside white space
InputLines == NonBlankLines(csvInput.content)

NonBlankCount ==
    Cardinality({i \in 1..Len(csvInput.content) : ~Blank(csvInput.content[i])})

(***************************************************************************)
(* C4.  For every CSV input with at least one data row the table has at    *)
(* most RowCap rows, the first RowCap data rows in order, and              *)
(* insights.rowCount is the number of all non-blank data lines.            *)
(***************************************************************************)
C4_RowsCappedCountUncapped ==
    pc = "csv-returned" /\ NonBlankCount >= 2 =>
        /\ Len(csvTables) = 1
        /\ LET table == csvTables[1]
               lines == InputLines
           IN  /\ Len(table.rows) <= RowCap
               /\ Len(table.rows) = Min(RowCap, NonBlankCount - 1)
               /\ \A k \in 1..Len(table.rows) :
                     table.rows[k] = parseCSVLine(lines[k + 1])
               /\ table.insights.rowCount = NonBlankCount - 1

\* a table of more data rows than the cap
C4_Witness ==
    /\ TableBuilt
    /\ csvTables[1].insights.rowCount > RowCap
    /\ Len(csvTables[1].rows) = RowCap

(***************************************************************************)
(* C5.  A column whose cells in the first SampleSize data rows are all     *)
(* non-empty and parse as numbers is numeric whatever the later rows hold; *)
(* a column with no numeric cell among the first SampleSize rows is        *)
(* categorical even if every later row is numeric.                         *)
(***************************************************************************)
SampleRows ==
    LET lines == InputLines
    IN  [k \in 1..Min(SampleSize, Len(lines) - 1) |-> parseCSVLine(lines[k + 1])]

C5_ClassifiedBySample ==
    TableBuilt =>
        LET table == csvTables[1]
            sample == SampleRows
        IN  \A index \in 1..Len(table.headers) :
              /\ (\A r \in 1..Len(sample) : NumericCell(sample[r], index))
                    => table.headers[index] \in Range(table.insights.numericColumns)
              /\ (\A r \in 1..Len(sample) : ~NumericCell(sample[r], index))
                    => table.headers[index] \in Range(table.insights.categoricalColumns)

(***************************************************************************)
(* C6.  categoricalColumns is the complement of numericColumns over the    *)
(* columns of the table: every column position is reported in exactly one  *)
(* of the two lists, so their lengths sum to columnCount, also when two    *)
(* columns carry the same header label.                                    *)
(***************************************************************************)
C6_CategoricalIsComplement ==
    TableBuilt =>
        LET insights == csvTables[1].insights
        IN  Len(insights.numericColumns) + Len(insights.categoricalColumns)
                = insights.columnCount

(***************************************************************************)
(* C7.  The row count is the number of non-blank lines minus one, and a    *)
(* comma inside a quoted field stays literal content of its cell and never *)
(* starts a new column: a comma splits a line only outside quotes.         *)
(***************************************************************************)
\* position i of the line lies inside a quoted field: an odd number of
\* quote characters comes before it
InsideQuotes(line, i) ==
    Cardinality({j \in 1..(i - 1) : line[j] = "\""}) % 2 = 1

QuotedCommas(line) ==
    Cardinality({i \in 1..Len(line) : line[i] = "," /\ InsideQuotes(line, i)})

SplittingCommas(line) ==
    Cardinality({i \in 1..Len(line) : line[i] = "," /\ ~InsideQuotes(line, i)})

RECURSIVE CommasInCells(_)
CommasInCells(row) ==
    IF row = <<>> THEN 0
    ELSE Cardinality({i \in 1..Len(Head(row)) : Head(row)[i] = ","})
         + CommasInCells(Tail(row))

C7_QuotedCommasLiteral ==
    TableBuilt =>
        LET table == csvTables[1]
            lines == InputLines
        IN  /\ table.insights.rowCount = NonBlankCount - 1
            /\ Len(table.headers) = 1 + SplittingCommas(lines[1])
            /\ CommasInCells(table.headers) = QuotedCommas(lines[1])
            /\ \A k \in 1..Len(table.rows) :
                  /\ Len(table.rows[k]) = 1 + SplittingCommas(lines[k + 1])
                  /\ CommasInCells(table.rows[k]) = QuotedCommas(lines[k + 1])

\* a row with a comma inside quotes, kept in its cell
C7_Witness ==
    /\ TableBuilt
    /\ LET lines == InputLines
       IN  \E k \in 1..Len(csvTables[1].rows) :
              /\ QuotedCommas(lines[k + 1]) > 0
              /\ SplittingCommas(lines[k + 1]) > 0
              /\ CommasInCells(csvTables[1].rows[k]) > 0

(***************************************************************************)
(* extractChartsFromContent.  The model's reply is a sequence of tokens:   *)
(* a character of ordinary text, one of the two sentinels, or the text of  *)
(* a chart payload taken whole.  A token is a record, so that the          *)
(* placeholders written into the text can carry the chart id.              *)
(***************************************************************************)
\* most segments a reply of the model is built from
MaxSegments == 3

Tok(k) == [k |-> k, t |-> 0, n |-> 0]

CHART_START == Tok("<<<CHART_START>>>")

CHART_END == Tok("<<<CHART_END>>>")

\* payload texts JSON.parse accepts:
\*   chartJson        {"type":"bar","title":"T","data":{...}}
\*   emptyObject      {}
\*   titleDollarQuote a chart whose title holds $' , as in "Revenue ($'000)"
\*   titleDollarAmp   a chart whose title holds $&
\*   nullJson         null
JsonKinds ==
    {"chartJson", "emptyObject", "titleDollarQuote", "titleDollarAmp", "nullJson"}

\* the payloads that give a chart: JSON.parse accepts them and building the
\* chart object reads no property of null
ChartKinds == JsonKinds \ {"nullJson"}

Segments ==
    { <<Tok("text")>>, <<CHART_START>>, <<CHART_END>>,
      <<CHART_START, CHART_END>>,
      <<CHART_START, Tok("brokenJson"), CHART_END>> }
    \cup { <<CHART_START, Tok(k), CHART_END>> : k \in JsonKinds }

RECURSIVE Contents(_)
Contents(n) ==
    IF n = 0 THEN {<<>>}
    ELSE Contents(n - 1) \cup { c \o g : c \in Contents(n - 1), g \in Segments }

\* the regular expression that also takes an unterminated block, up to the
\* end of the text
ExecUnterminated(text, from) ==
    LET starts == {i \in (from + 1)..Len(text) : text[i] = CHART_START}
    IN  IF starts = {} THEN [found |-> FALSE, start |-> 0, end |-> 0]
        ELSE LET i == CHOOSE x \in starts : \A y \in starts : x <= y
                 ends == {j \in (i + 1)..Len(text) : text[j] = CHART_END}
             IN  [ found |-> TRUE, start |-> i,
                   end |-> IF ends = {} THEN Len(text)
                           ELSE CHOOSE x \in ends : \A y \in ends : x <= y ]

\* chartRegex.exec(content) with chartRegex.lastIndex = from:
\* /<<<CHART_START>>>([\s\S]*?)<<<CHART_END>>>/g , the leftmost start at or
\* after lastIndex that an end follows, up to the first end after it
Exec(text, from) ==
    LET starts == {i \in (from + 1)..Len(text) :
                      /\ text[i] = CHART_START
                      /\ \E j \in (i + 1)..Len(text) : text[j] = CHART_END}
    IN  IF starts = {} THEN [found |-> FALSE, start |-> 0, end |-> 0]
        ELSE LET i == CHOOSE x \in starts : \A y \in starts : x <= y
                 ends == {j \in (i + 1)..Len(text) : text[j] = CHART_END}
             IN  [ found |-> TRUE, start |-> i,
                   end |-> CHOOSE x \in ends : \A y \in ends : x <= y ]

\* JSON.parse(match[1]) returns
JsonParses(payload) == Len(payload) = 1 /\ payload[1].k \in JsonKinds

\* building the chart object from the parsed value throws: chartSpec.type
\* of null
NormalizeThrows(payload) == JsonParses(payload) /\ payload[1].k = "nullJson"

\* chartSpec.title || `Chart ${chartIndex}`, chartIndex already incremented
TitleOf(kind, index) ==
    CASE kind = "chartJson" -> <<Tok("title")>>
      [] kind = "titleDollarQuote" -> <<Tok("$'")>>
      [] kind = "titleDollarAmp" -> <<Tok("$&")>>
      [] OTHER -> <<[k |-> "Chart n", t |-> 0, n |-> index]>>

\* the id built from the clock alone: `chart-${Date.now()}`
ChartWithoutOrdinal(kind, time, index) ==
    [ id |-> <<time, 0>>, spec |-> kind, title |-> TitleOf(kind, index + 1) ]

\* the chart pushed for a payload: id `chart-${Date.now()}-${chartIndex++}`
Chart(kind, time, index) ==
    [ id |-> <<time, index>>, spec |-> kind, title |-> TitleOf(kind, index + 1) ]

\* `<div class="chart-container" data-chart-id="${chart.id}">
\*    <p ...>[Chart: ${chart.title}]</p></div>`
Placeholder(chart) ==
    <<[k |-> "placeholder", t |-> chart.id[1], n |-> chart.id[2]]>>
    \o chart.title \o <<Tok("/placeholder")>>

\* '<p class="text-red-500">... Failed to render chart</p>'
ErrorMarker == <<Tok("Failed to render chart")>>

\* GetSubstitution: the $ patterns of a replacement string
RECURSIVE GetSubstitution(_, _, _)
GetSubstitution(template, matched, after) ==
    IF template = <<>> THEN <<>>
    ELSE (CASE Head(template).k = "$'" -> after
            [] Head(template).k = "$&" -> matched
            [] OTHER -> <<Head(template)>>)
         \o GetSubstitution(Tail(template), matched, after)

\* String.prototype.replace(pattern, replacement), both strings: the first
\* occurrence of the pattern, the replacement's $ patterns expanded
StringReplace(s, pat, template) ==
    LET i == IndexOf(s, pat)
    IN  IF i = 0 THEN s
        ELSE LET after == SubSeq(s, i + Len(pat), Len(s))
             IN  SubSeq(s, 1, i - 1) \o GetSubstitution(template, pat, after)
                 \o after

ChartsInit ==
    /\ content \in Contents(MaxSegments)
    /\ processedContent = content
    /\ charts = <<>>
    /\ chartIndex = 0
    /\ lastIndex = 0
    /\ now = 0
    /\ pc = "scanning"
    /\ ParseIdle /\ CsvIdle /\ PromptIdle

\* one turn of the while loop whose try block completes
ChartBlock ==
    /\ pc = "scanning"
    /\ LET match == Exec(content, lastIndex)
           block == SubSeq(content, match.start, match.end)
           payload == SubSeq(content, match.start + 1, match.end - 1)
       IN  /\ match.found
           /\ JsonParses(payload) /\ ~NormalizeThrows(payload)
           /\ LET chart == Chart(payload[1].k, now, chartIndex)
              IN  /\ charts' = Append(charts, chart)
                  /\ processedContent' =
                        StringReplace(processedContent, block, Placeholder(chart))
           /\ chartIndex' = chartIndex + 1
           /\ lastIndex' = match.end
    /\ \E tick \in {0, 1} : now' = now + tick
    /\ UNCHANGED <<content, pc, parseVars, csvVars, promptVars>>

\* one turn of the while loop that ends in the catch block
FailedBlock ==
    /\ pc = "scanning"
    /\ LET match == Exec(content, lastIndex)
           block == SubSeq(content, match.start, match.end)
           payload == SubSeq(content, match.start + 1, match.end - 1)
       IN  /\ match.found
           /\ ~JsonParses(payload) \/ NormalizeThrows(payload)
           /\ chartIndex' = IF JsonParses(payload) THEN chartIndex + 1 ELSE chartIndex
           /\ processedContent' = StringReplace(processedContent, block, ErrorMarker)
           /\ lastIndex' = match.end
    /\ \E tick \in {0, 1} : now' = now + tick
    /\ UNCHANGED <<content, charts, pc, parseVars, csvVars, promptVars>>

\* exec returns null: return { content: processedContent, charts }
ReturnCharts ==
    /\ pc = "scanning"
    /\ ~Exec(content, lastIndex).found
    /\ pc' = "returned"
    /\ UNCHANGED <<chartVars, parseVars, csvVars, promptVars>>

ChartsNext == ChartBlock \/ FailedBlock \/ ReturnCharts

SpecCharts == ChartsInit /\ [][ChartsNext]_vars

\* the text holds a complete sentinel-delimited block
HasBlock(text) ==
    \E i, j \in 1..Len(text) :
        i < j /\ text[i] = CHART_START /\ text[j] = CHART_END

\* position of the first CHART_END after position i, 0 when there is none
FirstEndAfter(text, i) ==
    LET ends == {j \in (i + 1)..Len(text) : text[j] = CHART_END}
    IN  IF ends = {} THEN 0 ELSE CHOOSE x \in ends : \A y \in ends : x <= y

\* a block whose payload is the JSON of a chart
WellFormed(payload) == Len(payload) = 1 /\ payload[1].k \in ChartKinds

\* the payloads of the blocks of the text from position pos on, left to
\* right, blocks not overlapping
RECURSIVE BlockPayloads(_, _)
BlockPayloads(text, pos) ==
    IF pos > Len(text) THEN <<>>
    ELSE IF text[pos] = CHART_START /\ FirstEndAfter(text, pos) # 0
    THEN <<SubSeq(text, pos + 1, FirstEndAfter(text, pos) - 1)>>
         \o BlockPayloads(text, FirstEndAfter(text, pos) + 1)
    ELSE BlockPayloads(text, pos + 1)

WellFormedPayloads(text) == SelectSeq(BlockPayloads(text, 1), WellFormed)

(***************************************************************************)
(* C8.  A text with zero sentinel-delimited blocks is returned unchanged,  *)
(* with an empty chart list.                                               *)
(***************************************************************************)
C8_NoBlocksUnchanged ==
    pc = "returned" /\ ~HasBlock(content) =>
        /\ processedContent = content
        /\ charts = <<>>

\* a text without a block that still holds sentinels: an end before a start
C8_Witness ==
    /\ pc = "returned"
    /\ ~HasBlock(content)
    /\ CHART_START \in Range(content)
    /\ CHART_END \in Range(content)

(***************************************************************************)
(* C9.  With well-formed and malformed blocks in any order, each malformed *)
(* block is replaced in place by the error marker, each well-formed block  *)
(* in place by a placeholder carrying its chart id, and exactly the        *)
(* well-formed blocks produce a chart.                                     *)
(***************************************************************************)
\* the opening of the placeholder of the k-th chart, which carries its id
PlaceholderOfChart(k) ==
    IF k <= Len(charts)
    THEN <<[k |-> "placeholder", t |-> charts[k].id[1], n |-> charts[k].id[2]]>>
    ELSE <<Tok("placeholder of a missing chart")>>

\* the text from position pos on with every block replaced in place, k
\* charts having been placed before pos
RECURSIVE ReplacedInPlace(_, _, _)
ReplacedInPlace(text, pos, k) ==
    IF pos > Len(text) THEN <<>>
    ELSE IF text[pos] = CHART_START /\ FirstEndAfter(text, pos) # 0
    THEN LET end == FirstEndAfter(text, pos)
         IN  IF WellFormed(SubSeq(text, pos + 1, end - 1))
             THEN PlaceholderOfChart(k + 1) \o ReplacedInPlace(text, end + 1, k + 1)
             ELSE ErrorMarker \o ReplacedInPlace(text, end + 1, k)
    ELSE <<text[pos]>> \o ReplacedInPlace(text, pos + 1, k)

\* position of the first token of kind k after position i, 0 when none
FirstKindAfter(text, i, k) ==
    LET hits == {j \in (i + 1)..Len(text) : text[j].k = k}
    IN  IF hits = {} THEN 0 ELSE CHOOSE x \in hits : \A y \in hits : x <= y

\* the output with every placeholder element, whatever its title, reduced
\* to its opening
RECURSIVE PlaceholdersReduced(_, _)
PlaceholdersReduced(text, pos) ==
    IF pos > Len(text) THEN <<>>
    ELSE IF text[pos].k = "placeholder" /\ FirstKindAfter(text, pos, "/placeholder") # 0
    THEN <<text[pos]>>
         \o PlaceholdersReduced(text, FirstKindAfter(text, pos, "/placeholder") + 1)
    ELSE <<text[pos]>> \o PlaceholdersReduced(text, pos + 1)

C9_BlocksReplacedInPlace ==
    pc = "returned" =>
        /\ Len(charts) = Len(WellFormedPayloads(content))
        /\ PlaceholdersReduced(processedContent, 1) = ReplacedInPlace(content, 1, 0)

(***************************************************************************)
(* C10.  The returned content holds no complete block; every block of the  *)
(* input has been replaced by exactly one placeholder or one error marker  *)
(* at its own position; the charts are in the order of their blocks, each  *)
(* with exactly one placeholder referencing its id.                        *)
(***************************************************************************)
Slot == Tok("slot")

\* the input with every block collapsed into a slot
RECURSIVE InputSkeleton(_, _)
InputSkeleton(text, pos) ==
    IF pos > Len(text) THEN <<>>
    ELSE IF text[pos] = CHART_START /\ FirstEndAfter(text, pos) # 0
    THEN <<Slot>> \o InputSkeleton(text, FirstEndAfter(text, pos) + 1)
    ELSE <<text[pos]>> \o InputSkeleton(text, pos + 1)

\* the output with every placeholder and every error marker collapsed into
\* a slot
RECURSIVE OutputSkeleton(_, _)
OutputSkeleton(text, pos) ==
    IF pos > Len(text) THEN <<>>
    ELSE IF text[pos].k = "placeholder" /\ FirstKindAfter(text, pos, "/placeholder") # 0
    THEN <<Slot>> \o OutputSkeleton(text, FirstKindAfter(text, pos, "/placeholder") + 1)
    ELSE IF <<text[pos]>> = ErrorMarker
    THEN <<Slot>> \o OutputSkeleton(text, pos + 1)
    ELSE <<text[pos]>> \o OutputSkeleton(text, pos + 1)

PlaceholdersOf(id) ==
    {i \in 1..Len(processedContent) :
        /\ processedContent[i].k = "placeholder"
        /\ <<processedContent[i].t, processedContent[i].n>> = id}

C10_DeSentineled ==
    pc = "returned" =>
        /\ ~HasBlock(processedContent)
        /\ OutputSkeleton(processedContent, 1) = InputSkeleton(content, 1)
        /\ LET wellFormed == WellFormedPayloads(content)
           IN  /\ Len(charts) = Len(wellFormed)
               /\ \A k \in 1..Len(charts) : charts[k].spec = wellFormed[k][1].k
        /\ \A k \in 1..Len(charts) : Cardinality(PlaceholdersOf(charts[k].id)) = 1

(***************************************************************************)
(* The text of a chart id: the template literal                            *)
(* `chart-${Date.now()}-${chartIndex++}` renders both numbers in decimal.  *)
(***************************************************************************)
DigitChar(d) == <<"0", "1", "2", "3", "4", "5", "6", "7", "8", "9">>[d + 1]

\* Number.prototype.toString of a non-negative integer
RECURSIVE Decimal(_)
Decimal(n) ==
    IF n < 10 THEN <<DigitChar(n)>>
    ELSE Decimal(n \div 10) \o <<DigitChar(n % 10)>>

IdText(id) ==
    <<"c", "h", "a", "r", "t", "-">> \o Decimal(id[1]) \o <<"-">>
    \o Decimal(id[2])

(***************************************************************************)
(* C13.  Within one call of extractChartsFromContent the ids of the        *)
(* returned charts are pairwise distinct, also when the clock does not     *)
(* advance between blocks and when some blocks fail to parse.              *)
(***************************************************************************)
C13_IdsPairwiseDistinct ==
    \A i, j \in 1..Len(charts) :
        i # j => IdText(charts[i].id) # IdText(charts[j].id)

\* two charts stamped with the same clock value, a failed block (whose
\* payload parsed, so that it consumed an ordinal) between them
C13_Witness ==
    /\ pc = "returned"
    /\ Len(charts) = 2
    /\ charts[1].id[1] = charts[2].id[1]
    /\ charts[2].id[2] = charts[1].id[2] + 2

(***************************************************************************)
(* The chart object built in the try block of extractChartsFromContent     *)
(* from the value JSON.parse returned.  A JavaScript value is a record of  *)
(* its type and its text; a || b is Or(a, b).                              *)
(***************************************************************************)
\* most datasets of a chart of the model, most data points of a dataset
MaxDatasets == 2

MaxPoints == 11

Undefined == [t |-> "undefined", v |-> ""]

Null == [t |-> "null", v |-> ""]

Str(s) == [t |-> "string", v |-> s]

\* ToBoolean of a value
Truthy(x) == x.t \notin {"undefined", "null"} /\ ~(x.t = "string" /\ x.v = "")

\* a || b
Or(a, b) == IF Truthy(a) THEN a ELSE b

\* const baseColors = [ `rgba(59, 130, 246, ${alpha})`, ... ]
baseColors(alpha) ==
    IF alpha = "0.6"
    THEN << "rgba(59, 130, 246, 0.6)", "rgba(16, 185, 129, 0.6)",
            "rgba(251, 146, 60, 0.6)", "rgba(147, 51, 234, 0.6)",
            "rgba(236, 72, 153, 0.6)", "rgba(245, 158, 11, 0.6)",
            "rgba(6, 182, 212, 0.6)", "rgba(239, 68, 68, 0.6)",
            "rgba(107, 114, 128, 0.6)", "rgba(34, 197, 94, 0.6)" >>
    ELSE << "rgba(59, 130, 246, 1)", "rgba(16, 185, 129, 1)",
            "rgba(251, 146, 60, 1)", "rgba(147, 51, 234, 1)",
            "rgba(236, 72, 153, 1)", "rgba(245, 158, 11, 1)",
            "rgba(6, 182, 212, 1)", "rgba(239, 68, 68, 1)",
            "rgba(107, 114, 128, 1)", "rgba(34, 197, 94, 1)" >>

\* generateColors(count, alpha): an array of count colors, the i-th (from
\* 0) being baseColors[i % baseColors.length]
generateColors(count, alpha) ==
    [ t |-> "array",
      v |-> [i \in 1..count |-> baseColors(alpha)[((i - 1) % 10) + 1]] ]

\* ds.data?.length || 0
DataLength(ds) == IF ds.data.present THEN Len(ds.data.values) ELSE 0

\* the object the map callback returns for the dataset ds
Dataset(ds) ==
    [ label |-> Or(ds.label, Str("Data")),
      data |-> IF ds.data.present THEN ds.data.values ELSE <<>>,
      backgroundColor |->
          IF Truthy(ds.backgroundColor) THEN ds.backgroundColor
          ELSE generateColors(DataLength(ds), "0.6"),
      borderColor |->
          IF Truthy(ds.borderColor) THEN ds.borderColor
          ELSE generateColors(DataLength(ds), "1"),
      borderWidth |-> IF Truthy(ds.borderWidth) THEN ds.borderWidth.v ELSE "1" ]

\* const chart = { id, type, title, data: { labels, datasets }, options }
ChartObject(parsed, time, index) ==
    [ id |-> <<time, index>>,
      type |-> Or(parsed.type, Str("bar")),
      title |-> IF Truthy(parsed.title)
                THEN [text |-> parsed.title.v, n |-> 0]
                ELSE [text |-> "Chart ", n |-> index + 1],
      datasets |-> IF parsed.data.present
                   THEN [j \in 1..Len(parsed.data.datasets) |->
                            Dataset(parsed.data.datasets[j])]
                   ELSE <<>>,
      titleText |-> Or(parsed.title, Str("")) ]

\* values of "type" the model's reply may carry
SpecTypes ==
    { Undefined, Null, Str(""), Str("bar"), Str("line"), Str("pie"),
      Str("doughnut"), Str("scatter"), Str("radar") }

DataArrays ==
    { [present |-> FALSE, values |-> <<>>] }
    \cup { [present |-> TRUE, values |-> [i \in 1..n |-> i]] :
             n \in {0, 2, MaxPoints} }

OwnColors == { Undefined, Str("#3B82F6") }

DatasetSpecs ==
    [ label : {Str("Series")}, data : DataArrays, backgroundColor : OwnColors,
      borderColor : OwnColors, borderWidth : {Undefined} ]

RECURSIVE DatasetLists(_)
DatasetLists(n) ==
    IF n = 0 THEN {<<>>}
    ELSE DatasetLists(n - 1)
         \cup { Append(l, ds) : l \in DatasetLists(n - 1), ds \in DatasetSpecs }

ChartSpecs ==
    [ type : SpecTypes, title : {Undefined, Str("T")},
      data : { [present |-> FALSE, datasets |-> <<>>] }
             \cup { [present |-> TRUE, datasets |-> l] :
                      l \in DatasetLists(MaxDatasets) } ]

ObjectInit ==
    /\ chartSpec \in ChartSpecs
    /\ chartObject = Unset
    /\ pc = "chart-parsed"
    /\ ParseIdle /\ CsvIdle /\ ChartsIdle
    /\ ClientIdle
    /\ HistoryIdle /\ MessageIdle /\ ContextIdle /\ ReportIdle

\* the try block from the chart object to charts.push(chart)
BuildChart ==
    /\ pc = "chart-parsed"
    /\ chartObject' = ChartObject(chartSpec, now, chartIndex)
    /\ chartIndex' = chartIndex + 1
    /\ charts' = Append(charts, chartObject')
    /\ pc' = "chart-built"
    /\ UNCHANGED <<chartSpec, content, processedContent, lastIndex, now,
                   parseVars, csvVars, historyVars, messageVars, contextVars,
                   reportVars, clientVars>>

ObjectNext == BuildChart

SpecChartObject == ObjectInit /\ [][ObjectNext]_vars

(***************************************************************************)
(* C11.  Every chart has a type of the fixed chart-kind set (bar, line,    *)
(* pie, doughnut): a block whose type is missing or is not one of these    *)
(* kinds yields a chart of type "bar".                                     *)
(***************************************************************************)
CHART_TYPES == { Str("bar"), Str("line"), Str("pie"), Str("doughnut") }

C11_TypeInChartKinds ==
    pc = "chart-built" =>
        /\ chartObject.type \in CHART_TYPES
        /\ chartSpec.type \notin CHART_TYPES => chartObject.type = Str("bar")

(***************************************************************************)
(* C12.  A dataset that omits its backgroundColor or borderColor gets a    *)
(* color of the ten-color palette selected by the dataset's position in    *)
(* the datasets list, modulo 10; a dataset that supplies its own color     *)
(* keeps it.                                                               *)
(***************************************************************************)
\* the colors a value holds: the string itself, or the strings of an array
ColorsOf(value) == IF value.t = "array" THEN Range(value.v) ELSE {value.v}

\* the palette color of the dataset at position j (1-based)
PaletteColor(j, alpha) == baseColors(alpha)[((j - 1) % 10) + 1]

C12_ColorsByDatasetPosition ==
    pc = "chart-built" /\ chartSpec.data.present =>
        \A j \in 1..Len(chartSpec.data.datasets) :
            LET ds == chartSpec.data.datasets[j]
                out == chartObject.datasets[j]
            IN  /\ IF ds.backgroundColor = Undefined
                   THEN ColorsOf(out.backgroundColor) = {PaletteColor(j, "0.6")}
                   ELSE out.backgroundColor = ds.backgroundColor
                /\ IF ds.borderColor = Undefined
                   THEN ColorsOf(out.borderColor) = {PaletteColor(j, "1")}
                   ELSE out.borderColor = ds.borderColor

(***************************************************************************)
(* formatChatHistory.  The history is the array JSON.parse made of the     *)
(* chatHistory field: objects with a type and, when the JSON text has it,  *)
(* a content.                                                              *)
(***************************************************************************)
\* entries of the history older than the ten most recent ones
MaxOlder == 2

\* history.slice(-10)
HistoryWindow == 10

Max(a, b) == IF a >= b THEN a ELSE b

Obj(text) == [t |-> "object", v |-> text]

Num(text) == [t |-> "number", v |-> text]

\* JSON.stringify(value): the JSON text of the value, and undefined (not a
\* string) for undefined
JSONstringify(value) ==
    CASE value.t = "undefined" -> Undefined
      [] value.t = "null" -> Str("null")
      [] value.t = "string" -> Str("\"" \o value.v \o "\"")
      [] OTHER -> Str(value.v)

\* Array.prototype.slice(-n)
SliceLast(a, n) == SubSeq(a, Max(1, Len(a) - n + 1), Len(a))

KeptType(msg) == msg.type = "user" \/ msg.type = "assistant"

formatChatHistory(h) ==
    LET kept == SelectSeq(SliceLast(h, HistoryWindow), KeptType)
    IN  [ i \in 1..Len(kept) |->
            [ role |-> kept[i].type,
              content |-> IF kept[i].content.t = "string"
                          THEN kept[i].content
                          ELSE JSONstringify(kept[i].content) ] ]

MessageTypes == {"user", "assistant", "error", "system"}

\* what an entry carries as content: a text, nothing (the key is absent), an
\* object, a number
MessageContents == { Str("hi"), Undefined, Obj("{\"a\":1}"), Num("5") }

Entries == [type : MessageTypes, content : MessageContents]

RecentEntries == [type : MessageTypes, content : {Str("hi"), Obj("{\"a\":1}")}]

Histories ==
    {<<>>} \cup { <<e>> : e \in Entries }
    \cup { <<e1, e2>> : e1 \in Entries, e2 \in Entries }
    \cup { Repeat(e1, n1) \o <<e2>> \o Repeat(e3, n3) :
             e1 \in RecentEntries, e2 \in RecentEntries, e3 \in RecentEntries,
             n1 \in 0..MaxOlder, n3 \in {HistoryWindow - 2, HistoryWindow - 1} }

HistoryInit ==
    /\ history \in Histories
    /\ formatted = Unset
    /\ pc = "history-parsed"
    /\ ParseIdle /\ CsvIdle /\ ChartsIdle
    /\ ClientIdle
    /\ ObjectIdle /\ MessageIdle /\ ContextIdle /\ ReportIdle

CallFormatChatHistory ==
    /\ pc = "history-parsed"
    /\ formatted' = formatChatHistory(history)
    /\ pc' = "history-formatted"
    /\ UNCHANGED <<history, parseVars, csvVars, chartVars, objectVars,
                   messageVars, contextVars, reportVars, clientVars>>

HistoryNext == CallFormatChatHistory

SpecHistory == HistoryInit /\ [][HistoryNext]_vars

(***************************************************************************)
(* C14.  formatChatHistory returns, in original order, exactly the entries *)
(* among the last 10 items of the history whose type is user or assistant, *)
(* each with string content (a content that is not a string is            *)
(* JSON-serialized); the result never has more than 10 entries and never   *)
(* an error or system entry.                                               *)
(***************************************************************************)
\* positions of the history that are among its last ten items and hold a
\* user or assistant entry, in increasing order
RECURSIVE KeptPositions(_, _)
KeptPositions(h, i) ==
    IF i > Len(h) THEN <<>>
    ELSE IF i > Len(h) - 10 /\ h[i].type \in {"user", "assistant"}
    THEN <<i>> \o KeptPositions(h, i + 1)
    ELSE KeptPositions(h, i + 1)

C14_LastTenUserAssistant ==
    pc = "history-formatted" =>
        LET kept == KeptPositions(history, 1)
        IN  /\ Len(formatted) = Len(kept)
            /\ Len(formatted) <= 10
            /\ \A i \in 1..Len(formatted) :
                  /\ formatted[i].role = history[kept[i]].type
                  /\ formatted[i].role \in {"user", "assistant"}
                  /\ formatted[i].content.t = "string"
                  /\ history[kept[i]].content.t = "string"
                        => formatted[i].content = history[kept[i]].content

(***************************************************************************)
(* buildUserMessage.  The document context and the query are sequences of  *)
(* characters; a literal the function pushes is kept in one piece, its     *)
(* leading pictograph left out.                                            *)
(***************************************************************************)
\* '='.repeat(80)
RULE == Repeat("=", 80)

DOC_BANNER == <<"UPLOADED DOCUMENT DATA - ANALYZE THIS CONTENT:">>

REQUEST_BANNER == <<"USER REQUEST BASED ON THE ABOVE DATA:">>

IMPORTANT_1 ==
    <<"IMPORTANT: Base your analysis PRIMARILY on the uploaded document data above.">>

IMPORTANT_2 ==
    <<"Create insights, trends, and recommendations using the specific data provided.">>

IMPORTANT_3 ==
    <<"Reference specific numbers, metrics, and details from the uploaded files.">>

VISUALIZE ==
    <<"Create visualizations from the data tables in the uploaded files.">>

USER_REQUEST == <<"USER REQUEST:">>

NO_DOCUMENTS ==
    <<"Note: No specific document data was provided. Please create a general analysis based on the company context.">>

MARK_TABLE == <<"T", "a", "b", "l", "e">>

MARK_CSV == <<"C", "S", "V">>

MARK_ROWS == <<"r", "o", "w", "s">>

\* parts.join('\n')
RECURSIVE Join(_)
Join(parts) ==
    IF parts = <<>> THEN <<>>
    ELSE IF Len(parts) = 1 THEN parts[1]
    ELSE parts[1] \o <<"\n">> \o Join(Tail(parts))

\* the function with the markers matched whatever their case
buildUserMessageAnyCase(query, context, includeGraphs) ==
    LET lower == ToLowerCase(context)
        parts ==
            IF Len(Trim(context)) > 0
            THEN << RULE, DOC_BANNER, RULE, <<>>, context, <<>>, RULE,
                    REQUEST_BANNER, RULE, query, <<>>, IMPORTANT_1,
                    IMPORTANT_2, IMPORTANT_3 >>
                 \o IF includeGraphs
                       /\ \/ Includes(lower, ToLowerCase(MARK_TABLE))
                          \/ Includes(lower, ToLowerCase(MARK_CSV))
                          \/ Includes(lower, ToLowerCase(MARK_ROWS))
                    THEN <<VISUALIZE>> ELSE <<>>
            ELSE << USER_REQUEST, query, <<>>, NO_DOCUMENTS >>
    IN  [parts |-> parts, text |-> Join(parts)]

buildUserMessage(query, context, includeGraphs) ==
    LET parts ==
            IF context # <<>> /\ Len(Trim(context)) > 0
            THEN << RULE, DOC_BANNER, RULE, <<>>, context, <<>>, RULE,
                    REQUEST_BANNER, RULE, query, <<>>, IMPORTANT_1,
                    IMPORTANT_2, IMPORTANT_3 >>
                 \o IF includeGraphs
                       /\ \/ Includes(context, MARK_TABLE)
                          \/ Includes(context, MARK_CSV)
                          \/ Includes(context, MARK_ROWS)
                    THEN <<VISUALIZE>> ELSE <<>>
            ELSE << USER_REQUEST, query, <<>>, NO_DOCUMENTS >>
    IN  [parts |-> parts, text |-> Join(parts)]

ContextCores ==
    { <<>>, <<"T">>, MARK_TABLE, ToLowerCase(MARK_TABLE), MARK_CSV,
      ToLowerCase(MARK_CSV), MARK_ROWS, <<"R", "o", "w", "s">>,
      <<"T", "a", "b", " ", "l", "e">> }

DocumentContexts ==
    { pre \o core \o post :
        pre \in {<<>>, <<" ">>, <<"x">>}, core \in ContextCores,
        post \in {<<>>, <<"\n">>, <<"y">>} }

\* the handler calls the function with a query that is not empty
Queries == { <<"q">>, <<"w", "h", "y", "?">> }

PromptInputs ==
    [ query : Queries, documentsContext : DocumentContexts,
      includeGraphs : BOOLEAN ]

MessageInit ==
    /\ promptInput \in PromptInputs
    /\ userMessage = Unset
    /\ pc = "message-asked"
    /\ ParseIdle /\ CsvIdle /\ ChartsIdle
    /\ ClientIdle
    /\ ObjectIdle /\ HistoryIdle /\ ContextIdle /\ ReportIdle

CallBuildUserMessage ==
    /\ pc = "message-asked"
    /\ userMessage' = buildUserMessage(promptInput.query,
                            promptInput.documentsContext,
                            promptInput.includeGraphs)
    /\ pc' = "message-built"
    /\ UNCHANGED <<promptInput, parseVars, csvVars, chartVars, objectVars,
                   historyVars, contextVars, reportVars, clientVars>>

MessageNext == CallBuildUserMessage

SpecUserMessage == MessageInit /\ [][MessageNext]_vars

(***************************************************************************)
(* C15.  buildUserMessage emits its parts in a fixed order: the document   *)
(* banner and the document context come before the request banner and the  *)
(* query, and only when the context is non-blank; the query is emitted     *)
(* exactly once in every case; the visualization instruction is appended   *)
(* exactly when includeGraphs is true, the context is non-blank and the    *)
(* context contains one of the markers Table, CSV or rows.                 *)
(***************************************************************************)
\* positions of the parts list holding the part p
PositionsOf(parts, p) == {i \in 1..Len(parts) : parts[i] = p}

NonBlank(text) ==
    \E i \in 1..Len(text) : text[i] \notin {" ", "\t", "\r", "\n"}

HasMarker(text) ==
    \E i \in 1..Len(text) :
        \/ i + 4 <= Len(text) /\ SubSeq(text, i, i + 4) = <<"T", "a", "b", "l", "e">>
        \/ i + 2 <= Len(text) /\ SubSeq(text, i, i + 2) = <<"C", "S", "V">>
        \/ i + 3 <= Len(text) /\ SubSeq(text, i, i + 3) = <<"r", "o", "w", "s">>

C15_PartsInFixedOrder ==
    pc = "message-built" =>
        LET parts == userMessage.parts
            context == promptInput.documentsContext
            query == promptInput.query
        IN  /\ Cardinality(PositionsOf(parts, query)) = 1
            /\ userMessage.text = Join(parts)
            /\ IF NonBlank(context)
               THEN \E a, b, c, d \in 1..Len(parts) :
                      /\ a < b /\ b < c /\ c < d
                      /\ PositionsOf(parts, DOC_BANNER) = {a}
                      /\ PositionsOf(parts, context) = {b}
                      /\ PositionsOf(parts, REQUEST_BANNER) = {c}
                      /\ PositionsOf(parts, query) = {d}
               ELSE /\ PositionsOf(parts, DOC_BANNER) = {}
                    /\ context # <<>> => PositionsOf(parts, context) = {}
            /\ IF promptInput.includeGraphs /\ NonBlank(context)
                  /\ HasMarker(context)
               THEN PositionsOf(parts, VISUALIZE) = {Len(parts)}
               ELSE PositionsOf(parts, VISUALIZE) = {}

\* graphs asked, a context holding a marker: the instruction is appended
C15_Witness ==
    /\ pc = "message-built"
    /\ promptInput.includeGraphs
    /\ Includes(promptInput.documentsContext, MARK_ROWS)
    /\ userMessage.parts[Len(userMessage.parts)] = VISUALIZE
    /\ userMessage.parts[5] = promptInput.documentsContext

(***************************************************************************)
(* The document context of a report request (formatPreParsedContent,       *)
(* processMultipleFiles and the choice between them in POST).  The context *)
(* is kept as the array that is joined with '\n': of every element its     *)
(* kind, the ordinal and the file name it carries (0 and <<>> when it      *)
(* carries none) and its length in UTF-16 code units.                      *)
(***************************************************************************)
\* most files of a request of the model
MaxFiles == 3

\* content.substring(0, 5000)
RawCap == 5000

Element(k, n, name, len) == [k |-> k, n |-> n, name |-> name, len |-> len]

RECURSIVE SumLen(_)
SumLen(elements) ==
    IF elements = <<>> THEN 0 ELSE Head(elements).len + SumLen(Tail(elements))

\* length of elements.join('\n')
JoinLength(elements) ==
    IF elements = <<>> THEN 0 ELSE SumLen(elements) + Len(elements) - 1

\* the lines pushed for file.metadata
MetadataLines(metadata) ==
    IF ~metadata.present THEN <<>>
    ELSE <<Element("File Information:", 0, <<>>, 20)>>
         \o (IF metadata.size # 0
             THEN <<Element("Size", 0, <<>>, 8 + Digits(metadata.size) + 6)>>
             ELSE <<>>)
         \o (IF metadata.type # <<>>
             THEN <<Element("Type", 0, <<>>, 8 + Len(metadata.type))>>
             ELSE <<>>)
         \o (IF metadata.rowCount # 0
             THEN <<Element("Rows", 0, <<>>, 8 + Digits(metadata.rowCount))>>
             ELSE <<>>)
         \o (IF metadata.columnCount # 0
             THEN <<Element("Columns", 0, <<>>, 11 + Digits(metadata.columnCount))>>
             ELSE <<>>)
         \o <<Element("", 0, <<>>, 0)>>

\* the lines the forEach callback pushes for file, index counted from 0
FileLines(file, index) ==
    << Element("FILE", index + 1, file.name,
               8 + Digits(index + 1) + 2 + Len(file.name)),
       Element("rule", 0, <<>>, 60) >>
    \o MetadataLines(file.metadata)
    \o << Element("Content:", 0, <<>>, 11),
          IF file.content # 0
          THEN Element("content", 0, file.name, file.content)
          ELSE Element("[No content available]", 0, file.name, 22),
          Element("", 0, <<>>, 0),
          Element("separator", 0, <<>>, 80),
          Element("", 0, <<>>, 0) >>

RECURSIVE ForEachFile(_, _)
ForEachFile(files, index) ==
    IF index >= Len(files) THEN <<>>
    ELSE FileLines(files[index + 1], index) \o ForEachFile(files, index + 1)

formatPreParsedContent(files) ==
    << Element("UPLOADED FILES DATA:", 0, <<>>, 23), Element("", 0, <<>>, 0) >>
    \o ForEachFile(files, 0)

\* the element pushed for one raw file: `\n=== ${file.name} ===\n` and the
\* first 5000 characters of its text, or the error note when reading fails
RawResult(file) ==
    IF file.readable
    THEN Element("raw", 0, file.name, 5 + Len(file.name) + 5 + Min(file.text, RawCap))
    ELSE Element("raw, could not read", 0, file.name, 5 + Len(file.name) + 5 + 28)

processMultipleFiles(files) == [i \in 1..Len(files) |-> RawResult(files[i])]

\* POST, step 3: the context and the function that built it
BuildDocumentsContext(parsed, raw) ==
    LET elements ==
            IF Len(parsed) > 0 THEN formatPreParsedContent(parsed)
            ELSE IF Len(raw) > 0 THEN processMultipleFiles(raw)
            ELSE <<>>
    IN  [ path |-> IF Len(parsed) > 0 THEN "formatPreParsedContent"
                   ELSE IF Len(raw) > 0 THEN "processMultipleFiles"
                   ELSE "none",
          elements |-> elements,
          length |-> JoinLength(elements) ]

FileNamesSent == { <<"a">> \o EXT_CSV, <<"b">> \o EXT_TXT }

\* lengths of the content the parse-file route returned for a file
ContentLens == {0, 1, ContentCap + MarkerLen}

Metadatas ==
    { [present |-> FALSE, size |-> 0, type |-> <<>>, rowCount |-> 0,
       columnCount |-> 0],
      [present |-> TRUE, size |-> 120, type |-> MIME_CSV, rowCount |-> 0,
       columnCount |-> 2] }

ParsedFiles == [name : FileNamesSent, content : ContentLens, metadata : Metadatas]

RawFiles ==
    [name : FileNamesSent, readable : {TRUE}, text : {0, RawCap + 1}]
    \cup [name : FileNamesSent, readable : {FALSE}, text : {0}]

RECURSIVE ListsOf(_, _)
ListsOf(S, n) ==
    IF n = 0 THEN {<<>>}
    ELSE ListsOf(S, n - 1) \cup { Append(l, x) : l \in ListsOf(S, n - 1), x \in S }

ContextInit ==
    /\ \/ filesContent \in ListsOf(ParsedFiles, MaxFiles) /\ uploadedFiles = <<>>
       \/ filesContent = <<>> /\ uploadedFiles \in ListsOf(RawFiles, MaxFiles)
       \/ filesContent \in ListsOf(ParsedFiles, 1)
            /\ uploadedFiles \in ListsOf(RawFiles, 1)
    /\ documentsContext = Unset
    /\ pc = "context-asked"
    /\ ParseIdle /\ CsvIdle /\ ChartsIdle
    /\ ClientIdle
    /\ ObjectIdle /\ HistoryIdle /\ MessageIdle /\ ReportIdle

BuildContext ==
    /\ pc = "context-asked"
    /\ documentsContext' = BuildDocumentsContext(filesContent, uploadedFiles)
    /\ pc' = "context-built"
    /\ UNCHANGED <<filesContent, uploadedFiles, parseVars, csvVars, chartVars,
                   objectVars, historyVars, messageVars, reportVars,
                   clientVars>>

ContextNext == BuildContext

SpecContext == ContextInit /\ [][ContextNext]_vars

(***************************************************************************)
(* C16.  The combined document context is capped: for any number of files  *)
(* and any file sizes the text handed to the prompt stays below a fixed    *)
(* total bound, files beyond the cap being omitted or truncated.  The code *)
(* names no total bound; the bound of the formula is room for CapFiles     *)
(* files of the largest content the parse-file route returns.              *)
(***************************************************************************)
CapFiles == 2

CombinedCap == CapFiles * (ContentCap + MarkerLen)

C16_ContextCapped ==
    pc = "context-built" => documentsContext.length < CombinedCap

(***************************************************************************)
(* C17.  The document context lists the files in the order they were       *)
(* supplied: the section of the i-th supplied file carries ordinal i and   *)
(* precedes the section of every later file, on the pre-parsed path and on *)
(* the raw-file path.                                                      *)
(***************************************************************************)
IsSectionHead(element) == element.k \in {"FILE", "raw", "raw, could not read"}

\* the elements that open the section of a file, in the order of the text
SectionHeads == SelectSeq(documentsContext.elements, IsSectionHead)

\* the files the context was built from
Supplied == IF Len(filesContent) > 0 THEN filesContent ELSE uploadedFiles

C17_SuppliedOrder ==
    pc = "context-built" =>
        LET heads == SectionHeads
        IN  /\ Len(heads) = Len(Supplied)
            /\ \A i \in 1..Len(heads) :
                  /\ heads[i].name = Supplied[i].name
                  /\ heads[i].n = i

(***************************************************************************)
(* The POST handler of the generate-report route.  A field of the form is  *)
(* kept as what the handler can tell about it: absent, empty, text that    *)
(* JSON.parse rejects, or the kind of value JSON.parse returns.  effects   *)
(* lists the calls the handler has made that process files, reach the      *)
(* language model or write a report.                                       *)
(***************************************************************************)
NoSession == [user |-> "none"]

Sessions == { NoSession, [user |-> "u1"] }

FormDatas ==
    [ query : {"absent", "empty", "text"},
      company : {"absent", "empty", "malformed", "null", "object"},
      includeGraphs : BOOLEAN,
      chatHistory : {"absent", "malformed", "array"},
      filesContent : {"absent", "malformed", "emptyArray", "array"},
      files : {0, 1} ]

\* statuses of the errors anthropic.messages.create throws; 0 stands for an
\* error without a status (connection failure, timeout)
ErrorStatuses == {0, 400, 401, 403, 429, 500, 529}

Pending == [kind |-> "pending", status |-> 0]

Outcome(kind, status) == [kind |-> kind, status |-> status]

\* NextResponse.json(body, { status })
Answer(status, success, code, error, reportId) ==
    [ status |-> status, success |-> success, code |-> code, error |-> error,
      reportId |-> reportId ]

\* no answer yet
NoAnswer == Answer(0, "absent", "absent", "absent", "absent")

\* the outer catch
GenerationError ==
    Answer(500, "absent", "GENERATION_ERROR", "Failed to generate report", "absent")

\* the test that looks at the query alone
MissingQueryOnly(fd) == fd.query \in {"absent", "empty"}

\* !query || !companyStr
MissingQueryOrCompany(fd) ==
    fd.query \in {"absent", "empty"} \/ fd.company \in {"absent", "empty"}

\* JSON.parse(companyStr) throws, or company.name reads a property of null
CompanyThrows(fd) == fd.company \in {"absent", "empty", "malformed", "null"}

\* the calls of step 3
ContextCalls(fd) ==
    IF fd.filesContent = "array" THEN <<"formatPreParsedContent">>
    ELSE IF fd.files > 0 THEN <<"processMultipleFiles">>
    ELSE <<>>

\* the catch of the inner try: the statuses 401, 429 and 400 are answered
\* there, every other error is thrown again and reaches the outer catch
ModelErrorAnswerWithoutRateLimit(status) ==
    IF status = 401
    THEN Answer(500, "absent", "INVALID_API_KEY",
                "Invalid API key. Please check your ANTHROPIC_API_KEY in .env.local",
                "absent")
    ELSE IF status = 400
    THEN Answer(400, "absent", "INVALID_REQUEST",
                "Request too large or invalid. Try with fewer files.", "absent")
    ELSE GenerationError

ModelErrorAnswer(status) ==
    IF status = 401
    THEN Answer(500, "absent", "INVALID_API_KEY",
                "Invalid API key. Please check your ANTHROPIC_API_KEY in .env.local",
                "absent")
    ELSE IF status = 429
    THEN Answer(429, "absent", "RATE_LIMIT",
                "Rate limit exceeded. Please try again in a few moments.", "absent")
    ELSE IF status = 400
    THEN Answer(400, "absent", "INVALID_REQUEST",
                "Request too large or invalid. Try with fewer files.", "absent")
    ELSE GenerationError

Count(seq, x) == Cardinality({i \in 1..Len(seq) : seq[i] = x})

\* a handler that calls the model a second time when the first call was
\* rate limited
AfterModelErrorRetrying(status, made) ==
    IF status = 429 /\ Count(made, "messages.create") < 2
    THEN [ pc |-> "awaiting-model", effects |-> Append(made, "messages.create"),
           answer |-> NoAnswer ]
    ELSE [ pc |-> "report-answered", effects |-> made,
           answer |-> ModelErrorAnswer(status) ]

\* what the handler does once messages.create has thrown
AfterModelError(status, made) ==
    [ pc |-> "report-answered", effects |-> made,
      answer |-> ModelErrorAnswer(status) ]

ReportInit ==
    /\ session \in Sessions
    /\ formData \in FormDatas
    /\ upstream = [model |-> Pending, db |-> Pending]
    /\ effects = <<>>
    /\ reportResponse = NoAnswer
    /\ pc = "report-received"
    /\ ParseIdle /\ CsvIdle /\ ChartsIdle
    /\ ClientIdle
    /\ ObjectIdle /\ HistoryIdle /\ MessageIdle /\ ContextIdle

\* POST from its entry to the first await that leaves the process: the
\* call of anthropic.messages.create, or an answer before it
POST_generateReport ==
    /\ pc = "report-received"
    /\ IF session.user = "none"
       THEN /\ reportResponse' =
                  Answer(401, "absent", "absent", "Not authenticated", "absent")
            /\ pc' = "report-answered"
            /\ UNCHANGED effects
       ELSE IF MissingQueryOrCompany(formData)
       THEN /\ reportResponse' =
                  Answer(400, "absent", "absent", "Missing query or company", "absent")
            /\ pc' = "report-answered"
            /\ UNCHANGED effects
       ELSE IF \/ CompanyThrows(formData)
               \/ formData.chatHistory = "malformed"
               \/ formData.filesContent = "malformed"
       THEN /\ reportResponse' = GenerationError
            /\ pc' = "report-answered"
            /\ UNCHANGED effects
       ELSE /\ effects' = effects \o ContextCalls(formData) \o <<"messages.create">>
            /\ pc' = "awaiting-model"
            /\ UNCHANGED reportResponse
    /\ UNCHANGED <<session, formData, upstream, parseVars, csvVars, chartVars,
                   objectVars, historyVars, messageVars, contextVars,
                   clientVars>>

\* messages.create resolves: the text is taken, the charts extracted, and
\* prisma.report.create called; a reply without a content block makes
\* response.content[0].type throw
ModelAnswers ==
    /\ pc = "awaiting-model"
    /\ \E kind \in {"ok", "no content block"} :
          /\ upstream' = [upstream EXCEPT !.model = Outcome(kind, 0)]
          /\ IF kind = "ok"
             THEN /\ effects' = Append(effects, "report.create")
                  /\ pc' = "awaiting-db"
                  /\ UNCHANGED reportResponse
             ELSE /\ reportResponse' = GenerationError
                  /\ pc' = "report-answered"
                  /\ UNCHANGED effects
    /\ UNCHANGED <<session, formData, parseVars, csvVars, chartVars,
                   objectVars, historyVars, messageVars, contextVars,
                   clientVars>>

\* messages.create throws
ModelFails ==
    /\ pc = "awaiting-model"
    /\ \E status \in ErrorStatuses :
          LET after == AfterModelError(status, effects)
          IN  /\ upstream' = [upstream EXCEPT !.model = Outcome("error", status)]
              /\ effects' = after.effects
              /\ reportResponse' = after.answer
              /\ pc' = after.pc
    /\ UNCHANGED <<session, formData, parseVars, csvVars, chartVars,
                   objectVars, historyVars, messageVars, contextVars,
                   clientVars>>

\* prisma.report.create resolves: the success response
ReportSaved ==
    /\ pc = "awaiting-db"
    /\ upstream' = [upstream EXCEPT !.db = Outcome("ok", 0)]
    /\ reportResponse' = Answer(200, "true", "absent", "absent", "r1")
    /\ pc' = "report-answered"
    /\ UNCHANGED <<session, formData, effects, parseVars, csvVars, chartVars,
                   objectVars, historyVars, messageVars, contextVars,
                   clientVars>>

\* prisma.report.create throws inside the inner try: its error carries no
\* status, is thrown again and reaches the outer catch
SaveFails ==
    /\ pc = "awaiting-db"
    /\ upstream' = [upstream EXCEPT !.db = Outcome("error", 0)]
    /\ reportResponse' = GenerationError
    /\ pc' = "report-answered"
    /\ UNCHANGED <<session, formData, effects, parseVars, csvVars, chartVars,
                   objectVars, historyVars, messageVars, contextVars,
                   clientVars>>

ReportNext ==
    POST_generateReport \/ ModelAnswers \/ ModelFails \/ ReportSaved \/ SaveFails

SpecReport == ReportInit /\ [][ReportNext]_vars

(***************************************************************************)
(* C18.  A request of an authenticated session that lacks the query or the *)
(* company field is rejected with status 400 before any file is processed, *)
(* before any model call is made and before any report is persisted.       *)
(***************************************************************************)
Authenticated == session.user # "none"

LacksQueryOrCompany ==
    \/ formData.query \in {"absent", "empty"}
    \/ formData.company \in {"absent", "empty"}

C18_RejectedBeforeAnyWork ==
    Authenticated /\ LacksQueryOrCompany =>
        /\ effects = <<>>
        /\ pc \in {"report-received", "report-answered"}
        /\ pc = "report-answered" => reportResponse.status = 400

\* a request with a query, files of both kinds and no company, rejected
C18_Witness ==
    /\ pc = "report-answered"
    /\ Authenticated
    /\ formData.query = "text" /\ formData.company = "absent"
    /\ formData.filesContent = "array" /\ formData.files = 1
    /\ reportResponse.status = 400
    /\ effects = <<>>

(***************************************************************************)
(* C19.  When the model call fails the response carries a distinct error   *)
(* code per failure class: upstream status 401 gives INVALID_API_KEY, 429  *)
(* gives RATE_LIMIT, 400 gives INVALID_REQUEST and any other failure       *)
(* GENERATION_ERROR; no two classes share a code and no failure leaves the *)
(* request without a response.                                             *)
(***************************************************************************)
ModelCallFailed == upstream.model.kind = "error"

C19_DistinctCodePerClass ==
    ModelCallFailed =>
        /\ pc = "report-answered"
        /\ reportResponse # NoAnswer
        /\ reportResponse.code = "INVALID_API_KEY" <=> upstream.model.status = 401
        /\ reportResponse.code = "RATE_LIMIT" <=> upstream.model.status = 429
        /\ reportResponse.code = "INVALID_REQUEST" <=> upstream.model.status = 400
        /\ reportResponse.code = "GENERATION_ERROR"
              <=> upstream.model.status \notin {401, 429, 400}

\* a rate-limited call answered with its own code
C19_Witness ==
    /\ pc = "report-answered"
    /\ ModelCallFailed
    /\ upstream.model.status = 429
    /\ reportResponse.code = "RATE_LIMIT"

(***************************************************************************)
(* C20.  A request makes at most one call to the language model: after a   *)
(* failed call the handler answers with a failure, never calls the model   *)
(* again for that request and persists no report; a report is persisted    *)
(* only after the model call succeeded.                                    *)
(***************************************************************************)
ModelCalls == Count(effects, "messages.create")

ReportsCreated == Count(effects, "report.create")

C20_AtMostOneModelCall ==
    /\ ModelCalls <= 1
    /\ ReportsCreated <= 1
    /\ ModelCallFailed =>
          /\ pc = "report-answered"
          /\ reportResponse.success # "true"
          /\ reportResponse.status # 200
          /\ ReportsCreated = 0
    /\ ReportsCreated = 1 =>
          /\ upstream.model.kind = "ok"
          /\ effects[Len(effects)] = "report.create"
          /\ effects[Len(effects) - 1] = "messages.create"

\* a request whose only model call failed on a server error: answered with
\* a failure, nothing persisted
C20_Witness ==
    /\ pc = "report-answered"
    /\ ModelCallFailed
    /\ upstream.model.status = 529
    /\ ModelCalls = 1
    /\ ReportsCreated = 0
    /\ reportResponse.code = "GENERATION_ERROR"

(***************************************************************************)
(* The chat store (useChatStore).  Every store action runs synchronously   *)
(* up to its first await, so a call is one step up to that point and one   *)
(* step for each continuation; calls waiting at an await are kept in       *)
(* uploads, sends and calls, and any of them may be resumed next.  File    *)
(* and message identifiers (Math.random) are taken to be fresh: a call     *)
(* gets the next ordinal.  The companies list is left out.                 *)
(***************************************************************************)
\* calls of uploadFile, sendMessage, saveReport and login made in one run
MaxCalls == 3

CallsMade == nextId.file + nextId.send + nextId.call

NoError == "null"

NoCompany == "null"

NoReport == [of |-> 0, edited |-> FALSE]

\* the File objects a user can pick: name and size
PickedFiles ==
    {[name |-> "q1.csv", size |-> 2048],
     [name |-> "notes.txt", size |-> 2048],
     [name |-> "q1.csv", size |-> MAX_SIZE + 1]}

UploadedFile(id, file, status) ==
    [id |-> id, name |-> file.name, size |-> file.size, status |-> status,
     progress |-> 0, content |-> ""]

Message(type, of) == [type |-> type, of |-> of]

\* { ...f, ...updates }
Merge(f, updates) ==
    [k \in DOMAIN f |-> IF k \in DOMAIN updates THEN updates[k] ELSE f[k]]

FileIds(files) == {files[i].id : i \in 1..Len(files)}

WithStatus(files, status) ==
    SelectSeq(files, LAMBDA f : f.status = status)

removeFileAndEarlier(files, fileId) ==
    SelectSeq(files, LAMBDA f : f.id > fileId)

\* uploadedFiles.filter(f => f.id !== fileId)
removeFile(files, fileId) ==
    SelectSeq(files, LAMBDA f : f.id # fileId)

updateFileOrAdd(files, fileId, updates) ==
    IF fileId \in FileIds(files)
    THEN [i \in 1..Len(files) |->
            IF files[i].id = fileId THEN Merge(files[i], updates) ELSE files[i]]
    ELSE Append(files,
            Merge(UploadedFile(fileId, [name |-> "q1.csv", size |-> 2048],
                               "uploading"), updates))

\* uploadedFiles.map(f => f.id === fileId ? { ...f, ...updates } : f)
updateFile(files, fileId, updates) ==
    [i \in 1..Len(files) |->
        IF files[i].id = fileId THEN Merge(files[i], updates) ELSE files[i]]

isDuplicateOfReady(files, file) ==
    \E i \in 1..Len(files) :
        /\ files[i].name = file.name
        /\ files[i].size = file.size
        /\ files[i].status = "ready"

\* uploadedFiles.some(f => f.name === file.name && f.size === file.size
\*                         && f.status !== 'error')
isDuplicate(files, file) ==
    \E i \in 1..Len(files) :
        /\ files[i].name = file.name
        /\ files[i].size = file.size
        /\ files[i].status # "error"

RejectionForCompanyOnly(state) ==
    IF state.selectedCompany = NoCompany THEN "select-company" ELSE NoError

\* the two early returns of sendMessage: the error text set, NoError when
\* the message is accepted
Rejection(state) ==
    IF state.selectedCompany = NoCompany THEN "select-company"
    ELSE IF Len(WithStatus(state.uploadedFiles, "uploading")) > 0
         THEN "wait-for-uploads"
         ELSE NoError

ReadyAlways(outcome) == "ready"

\* the status uploadFile gives the entry when the parse request is over:
\* the end of the try block, or the catch block
SettledStatus(outcome) == IF outcome = "ok" THEN "ready" ELSE "error"

\* what the parse request can come to: fetch rejects, the response is not
\* ok, its body is not JSON, or a 200 answer is read
ParseOutcomes == {"ok", "not-ok", "rejected", "bad-body"}

\* content: parsed.content || parsed.text || ''
ParsedContents == {"text", ""}

StoreInit ==
    /\ pc = "store"
    /\ store \in [messages : {<<>>}, currentReport : {NoReport},
                  selectedCompany : {NoCompany, "acme"},
                  uploadedFiles : {<<>>}, isLoading : {FALSE},
                  error : {NoError}, isAuthenticated : {FALSE}]
    /\ uploads = {} /\ sends = {} /\ calls = {}
    /\ nextId = NoIds /\ lastOp = NoOp /\ removed = {}
    /\ ParseIdle /\ CsvIdle /\ ChartsIdle
    /\ ObjectIdle /\ HistoryIdle /\ MessageIdle /\ ContextIdle /\ ReportIdle
    /\ ExcelIdle /\ PrismaIdle /\ AttachIdle

StoreFrame ==
    UNCHANGED <<pc, parseVars, csvVars, chartVars, objectVars, historyVars,
                messageVars, contextVars, reportVars, excelVars, prismaVars,
                readyFiles>>

setCompany ==
    /\ pc = "store"
    /\ store' = [store EXCEPT !.selectedCompany = "acme"]
    /\ lastOp' = [op |-> "setCompany", id |-> 0]
    /\ UNCHANGED <<uploads, sends, calls, nextId, removed>>
    /\ StoreFrame

\* uploadFile, up to its return or its first await
uploadFile ==
    /\ pc = "store"
    /\ CallsMade < MaxCalls
    /\ \E file \in PickedFiles :
        LET fileId == nextId.file + 1
            files == store.uploadedFiles
        IN  /\ nextId' = [nextId EXCEPT !.file = fileId]
            /\ IF file.size > MAX_SIZE
               THEN /\ store' = [store EXCEPT
                          !.uploadedFiles =
                              Append(files, UploadedFile(fileId, file, "error")),
                          !.error = "file-too-large"]
                    /\ lastOp' = [op |-> "uploadFile-too-large", id |-> fileId]
                    /\ UNCHANGED uploads
               ELSE IF isDuplicate(files, file)
               THEN /\ store' = [store EXCEPT !.error = "already-uploaded"]
                    /\ lastOp' = [op |-> "uploadFile-duplicate", id |-> fileId]
                    /\ UNCHANGED uploads
               ELSE /\ store' = [store EXCEPT
                          !.uploadedFiles =
                              updateFile(
                                  Append(files,
                                         UploadedFile(fileId, file, "uploading")),
                                  fileId, [progress |-> 20]),
                          !.error = NoError]
                    /\ lastOp' = [op |-> "uploadFile-started", id |-> fileId]
                    /\ uploads' = uploads \cup {[id |-> fileId, stage |-> "fetch"]}
    /\ UNCHANGED <<sends, calls, removed>>
    /\ StoreFrame

\* the catch block of uploadFile
UploadCaught(u, outcome) ==
    /\ store' = [store EXCEPT
          !.uploadedFiles =
              updateFile(store.uploadedFiles, u.id,
                         [status |-> SettledStatus(outcome), progress |-> 0]),
          !.error = "upload-failed"]
    /\ uploads' = uploads \ {u}
    /\ lastOp' = [op |-> "uploadFile-failed", id |-> u.id]

\* await fetch('/api/parse-file') settles
ParseFetchSettles ==
    /\ pc = "store"
    /\ \E u \in uploads :
        /\ u.stage = "fetch"
        /\ \E outcome \in {"ok", "not-ok", "rejected"} :
            IF outcome = "rejected"
            THEN UploadCaught(u, outcome)
            ELSE /\ store' = [store EXCEPT
                       !.uploadedFiles =
                           updateFile(store.uploadedFiles, u.id,
                                      [progress |-> 60])]
                 /\ uploads' = (uploads \ {u})
                                 \cup {[id |-> u.id, stage |-> outcome]}
                 /\ lastOp' = [op |-> "uploadFile-answered", id |-> u.id]
    /\ UNCHANGED <<sends, calls, nextId, removed>>
    /\ StoreFrame

\* await response.json() settles
ParseBodySettles ==
    /\ pc = "store"
    /\ \E u \in uploads :
        /\ u.stage # "fetch"
        /\ \/ /\ u.stage = "ok"
              /\ \E parsed \in ParsedContents :
                  /\ store' = [store EXCEPT
                        !.uploadedFiles =
                            updateFile(
                                updateFile(store.uploadedFiles, u.id,
                                           [progress |-> 90]),
                                u.id,
                                [status |-> SettledStatus("ok"),
                                 progress |-> 100, content |-> parsed])]
                  /\ uploads' = uploads \ {u}
                  /\ lastOp' = [op |-> "uploadFile-ready", id |-> u.id]
           \/ /\ u.stage = "ok"
              /\ UploadCaught(u, "bad-body")
           \/ /\ u.stage = "not-ok"
              /\ UploadCaught(u, "not-ok")
    /\ UNCHANGED <<sends, calls, nextId, removed>>
    /\ StoreFrame

callRemoveFile ==
    /\ pc = "store"
    /\ \E fileId \in FileIds(store.uploadedFiles) :
        /\ store' = [store EXCEPT
              !.uploadedFiles = removeFile(store.uploadedFiles, fileId)]
        /\ removed' = removed \cup {fileId}
        /\ lastOp' = [op |-> "removeFile", id |-> fileId]
    /\ UNCHANGED <<uploads, sends, calls, nextId>>
    /\ StoreFrame

clearChat ==
    /\ pc = "store"
    /\ store' = [store EXCEPT !.messages = <<>>, !.currentReport = NoReport,
                              !.uploadedFiles = <<>>, !.error = NoError]
    /\ removed' = removed \cup FileIds(store.uploadedFiles)
    /\ lastOp' = [op |-> "clearChat", id |-> 0]
    /\ UNCHANGED <<uploads, sends, calls, nextId>>
    /\ StoreFrame

\* sendMessage, up to its return or its await of fetch
sendMessage ==
    /\ pc = "store"
    /\ CallsMade < MaxCalls
    /\ LET sendId == nextId.send + 1
           readyIds == FileIds(WithStatus(store.uploadedFiles, "ready"))
       IN  IF Rejection(store) # NoError
           THEN /\ store' = [store EXCEPT !.error = Rejection(store)]
                /\ lastOp' = [op |-> "sendMessage-rejected", id |-> 0]
                /\ UNCHANGED <<sends, nextId>>
           ELSE /\ store' = [store EXCEPT
                      !.messages = Append(@, Message("user", sendId)),
                      !.isLoading = TRUE,
                      !.error = NoError]
                /\ sends' = sends \cup {[id |-> sendId, files |-> readyIds]}
                /\ nextId' = [nextId EXCEPT !.send = sendId]
                /\ lastOp' = [op |-> "sendMessage-accepted", id |-> sendId]
    /\ UNCHANGED <<uploads, calls, removed>>
    /\ StoreFrame

\* the request of a sendMessage is answered 200 and its body read
GenerateReportResolves ==
    /\ pc = "store"
    /\ \E s \in sends :
        /\ store' = [store EXCEPT
              !.messages = Append(@, Message("assistant", s.id)),
              !.currentReport = [of |-> s.id, edited |-> FALSE],
              !.uploadedFiles = <<>>,
              !.isLoading = FALSE,
              !.error = NoError]
        /\ sends' = sends \ {s}
        /\ lastOp' = [op |-> "sendMessage-succeeded", id |-> s.id]
    /\ UNCHANGED <<uploads, calls, nextId, removed>>
    /\ StoreFrame

\* fetch rejects, the response is not ok, or its body is not JSON
GenerateReportFails ==
    /\ pc = "store"
    /\ \E s \in sends :
        /\ store' = [store EXCEPT
              !.messages = Append(@, Message("error", s.id)),
              !.isLoading = FALSE,
              !.error = "report-failed"]
        /\ sends' = sends \ {s}
        /\ lastOp' = [op |-> "sendMessage-failed", id |-> s.id]
    /\ UNCHANGED <<uploads, calls, nextId, removed>>
    /\ StoreFrame

\* saveReport and login, up to their await of fetch
saveReportOrLogin ==
    /\ pc = "store"
    /\ CallsMade < MaxCalls
    /\ \E op \in {"saveReport", "login"} :
        /\ store' = [store EXCEPT
              !.isLoading = TRUE,
              !.error = IF op = "login" THEN NoError ELSE @]
        /\ calls' = calls \cup {[op |-> op, id |-> nextId.call + 1]}
        /\ lastOp' = [op |-> op, id |-> nextId.call + 1]
    /\ nextId' = [nextId EXCEPT !.call = @ + 1]
    /\ UNCHANGED <<uploads, sends, removed>>
    /\ StoreFrame

\* the request of a saveReport or a login settles
CallSettles ==
    /\ pc = "store"
    /\ \E c \in calls, ok \in BOOLEAN :
        /\ store' =
              IF ~ok
              THEN [store EXCEPT
                      !.error = IF c.op = "login" THEN "invalid-credentials"
                                ELSE "save-failed",
                      !.isLoading = FALSE]
              ELSE IF c.op = "login"
              THEN [store EXCEPT !.isAuthenticated = TRUE, !.isLoading = FALSE]
              ELSE [store EXCEPT
                      !.currentReport =
                          IF @ = NoReport THEN @ ELSE [@ EXCEPT !.edited = TRUE],
                      !.isLoading = FALSE]
        /\ calls' = calls \ {c}
        /\ lastOp' = [op |-> IF ok THEN "call-succeeded" ELSE "call-failed",
                      id |-> c.id]
    /\ UNCHANGED <<uploads, sends, nextId, removed>>
    /\ StoreFrame

StoreNext ==
    \/ setCompany
    \/ uploadFile
    \/ ParseFetchSettles
    \/ ParseBodySettles
    \/ callRemoveFile
    \/ clearChat
    \/ sendMessage
    \/ GenerateReportResolves
    \/ GenerateReportFails
    \/ saveReportOrLogin
    \/ CallSettles

SpecStore == StoreInit /\ [][StoreNext]_vars

\* the entries of the file list, as a set
FileEntries(files) == {files[i] : i \in 1..Len(files)}

(***************************************************************************)
(* C21.  The status of an uploaded-file entry goes from uploading to ready *)
(* or from uploading to error: when the parse request of an entry has      *)
(* succeeded the entry is ready, when it has failed the entry is error, an *)
(* entry that is ready or error keeps its status in every later step, and  *)
(* an entry is uploading only while its uploadFile call is still waiting   *)
(* for the parse request.                                                  *)
(***************************************************************************)
C21_StatusLifecycle ==
    [][ /\ \A f \in FileEntries(store.uploadedFiles) :
            \A g \in FileEntries(store'.uploadedFiles) :
                (g.id = f.id /\ f.status \in {"ready", "error"})
                    => g.status = f.status
        /\ \A g \in FileEntries(store'.uploadedFiles) :
            /\ g.id \notin FileIds(store.uploadedFiles)
                  => g.status \in {"uploading", "error"}
            /\ (lastOp'.op = "uploadFile-ready" /\ g.id = lastOp'.id)
                  => g.status = "ready"
            /\ (lastOp'.op = "uploadFile-failed" /\ g.id = lastOp'.id)
                  => g.status = "error"
            /\ g.status = "uploading"
                  => \E u \in uploads' : u.id = g.id
      ]_vars

\* one entry made ready by its parse request and one made error by it, no
\* upload still waiting
C21_Witness ==
    /\ pc = "store"
    /\ uploads = {}
    /\ lastOp.op = "uploadFile-failed"
    /\ \E f, g \in FileEntries(store.uploadedFiles) :
        /\ f.status = "ready" /\ f.progress = 100
        /\ g.status = "error" /\ g.size <= MAX_SIZE /\ g.id = lastOp.id

(***************************************************************************)
(* C22.  Entries leave uploadedFiles only by a sent message or by explicit *)
(* removal: the step that completes a sendMessage whose request succeeded  *)
(* leaves uploadedFiles empty, the steps of a sendMessage whose request    *)
(* failed leave uploadedFiles as it was, and removeFile(id) drops the      *)
(* entry with that id and no other.                                        *)
(***************************************************************************)
C22_DiscardedBySendOrRemoval ==
    [][ /\ lastOp'.op = "sendMessage-succeeded"
            => store'.uploadedFiles = <<>>
        /\ lastOp'.op \in {"sendMessage-failed", "sendMessage-accepted",
                           "sendMessage-rejected"}
            => store'.uploadedFiles = store.uploadedFiles
        /\ lastOp'.op = "removeFile"
            => /\ Len(store'.uploadedFiles) = Len(store.uploadedFiles) - 1
               /\ FileEntries(store'.uploadedFiles)
                    = {f \in FileEntries(store.uploadedFiles) :
                          f.id # lastOp'.id}
        /\ FileIds(store.uploadedFiles) \ FileIds(store'.uploadedFiles) # {}
            => lastOp'.op \in {"sendMessage-succeeded", "removeFile",
                               "clearChat"}
      ]_vars

\* a send that failed after one of two files was removed: the other file
\* is still listed
C22_Witness ==
    /\ pc = "store"
    /\ lastOp.op = "sendMessage-failed"
    /\ removed # {}
    /\ Len(store.uploadedFiles) = 1
    /\ store.uploadedFiles[1].status = "ready"

(***************************************************************************)
(* C24.  A sendMessage called while a file is uploading, or while no       *)
(* company is selected, is rejected: it appends no message, issues no      *)
(* generate-report request, leaves isLoading and uploadedFiles as they     *)
(* were and sets only the error text; no sendMessage is accepted in such a *)
(* state.                                                                  *)
(***************************************************************************)
SendBlocked ==
    \/ store.selectedCompany = NoCompany
    \/ \E f \in FileEntries(store.uploadedFiles) : f.status = "uploading"

C24_RejectedWithoutEffect ==
    [][ /\ lastOp'.op = "sendMessage-accepted" => ~SendBlocked
        /\ lastOp'.op = "sendMessage-rejected"
            => /\ SendBlocked
               /\ store'.error # NoError
               /\ store' = [store EXCEPT !.error = store'.error]
               /\ sends' = sends
               /\ uploads' = uploads
               /\ calls' = calls
      ]_vars

\* a message rejected because a file was still uploading
C24_Witness ==
    /\ pc = "store"
    /\ lastOp.op = "sendMessage-rejected"
    /\ store.selectedCompany # NoCompany
    /\ store.error = "wait-for-uploads"
    /\ \E f \in FileEntries(store.uploadedFiles) : f.status = "uploading"
    /\ store.messages = <<>>
    /\ ~store.isLoading

(***************************************************************************)
(* C25.  Every uploading or ready entry that the completion of a           *)
(* successful sendMessage drops from uploadedFiles was one of the ready    *)
(* files of that message: an entry added while the request was in flight   *)
(* is still listed afterwards.                                             *)
(***************************************************************************)
C25_DiscardsOnlySentFiles ==
    [][ lastOp'.op = "sendMessage-succeeded"
          => \A s \in sends \ sends' :
                \A f \in FileEntries(store.uploadedFiles) :
                    (f.status # "error" /\ f.id \notin s.files)
                        => f.id \in FileIds(store'.uploadedFiles)
      ]_vars

(***************************************************************************)
(* C26.  An entry that removeFile or clearChat dropped while its upload    *)
(* was in flight is never listed again: the updates that the upload makes  *)
(* when it is answered, completes or fails leave the file list as it is.   *)
(***************************************************************************)
C26_RemovedStaysRemoved ==
    /\ removed \cap FileIds(store.uploadedFiles) = {}
    /\ (lastOp.op \in {"uploadFile-answered", "uploadFile-ready",
                       "uploadFile-failed"} /\ lastOp.id \in removed)
          => lastOp.id \notin FileIds(store.uploadedFiles)

\* the upload of a removed file has completed, another file is listed and
\* the removed one is not
C26_Witness ==
    /\ pc = "store"
    /\ lastOp.op = "uploadFile-ready"
    /\ lastOp.id \in removed
    /\ store.uploadedFiles # <<>>
    /\ lastOp.id \notin FileIds(store.uploadedFiles)

(***************************************************************************)
(* C27.  uploadedFiles never holds two entries of the same name and size   *)
(* that are both not in error status: an uploadFile of a file that matches *)
(* a non-error entry adds no entry and sets only the error text, and a     *)
(* file larger than 10 MB is added as an error entry without any parse     *)
(* request.                                                                *)
(***************************************************************************)
NoLiveDuplicates(files) ==
    \A i, j \in 1..Len(files) :
        (/\ i # j
         /\ files[i].name = files[j].name
         /\ files[i].size = files[j].size
         /\ files[i].status # "error")
            => files[j].status = "error"

C27_NoDuplicateLiveEntries ==
    [][ /\ NoLiveDuplicates(store'.uploadedFiles)
        /\ lastOp'.op = "uploadFile-duplicate"
            => /\ store'.error # NoError
               /\ store' = [store EXCEPT !.error = store'.error]
               /\ uploads' = uploads
        /\ lastOp'.op = "uploadFile-too-large"
            => /\ uploads' = uploads
               /\ Len(store'.uploadedFiles) = Len(store.uploadedFiles) + 1
               /\ LET added == store'.uploadedFiles[Len(store'.uploadedFiles)]
                  IN  /\ added.status = "error"
                      /\ added.size > MAX_SIZE
                      /\ added.id = lastOp'.id
        /\ \A u \in uploads' :
              \A f \in FileEntries(store'.uploadedFiles) :
                  f.id = u.id => f.size <= MAX_SIZE
      ]_vars

\* a second upload of q1.csv was refused while the first is listed; an
\* earlier attempt that failed is listed as an error entry of the same name
\* and size
C27_Witness ==
    /\ pc = "store"
    /\ lastOp.op = "uploadFile-duplicate"
    /\ Len(store.uploadedFiles) = 2
    /\ store.uploadedFiles[1].status = "error"
    /\ store.uploadedFiles[2].status # "error"
    /\ store.uploadedFiles[1].name = store.uploadedFiles[2].name
    /\ store.uploadedFiles[1].size = store.uploadedFiles[2].size
    /\ store.error = "already-uploaded"

(***************************************************************************)
(* C30.  isLoading is true whenever a generate-report request issued by    *)
(* sendMessage is still in flight, and false once neither such a request   *)
(* nor a saveReport or login request remains.                              *)
(***************************************************************************)
C30_LoadingWhileRequestInFlight ==
    /\ sends # {} => store.isLoading
    /\ (sends = {} /\ calls = {}) => ~store.isLoading

(***************************************************************************)
(* parseExcel: the tables built from the sheets of a workbook.  A sheet is *)
(* given as XLSX.utils.sheet_to_json returns it with header: 1 (an array   *)
(* of rows, each an array of cells, a missing cell being ''); a cell is a  *)
(* text, kept as its characters.  The CSV text of the content field is the *)
(* library's and is left out.                                              *)
(***************************************************************************)
MaxSheets == 2

ExcelRowCap == 1000

ExcelPreview == 5

EmptyCell == <<>>

HeaderRows == {<<<<"R">>, <<"Q">>>>, <<<<" ", "R">>, EmptyCell>>}

DataRow == <<<<"x">>, <<"7">>>>

PartRow == <<EmptyCell, <<"7">>>>

EmptyRow == <<EmptyCell, EmptyCell>>

\* the rows below the header: a block of equal rows and a few more
RowBlocks == {0, 1, ExcelRowCap - 1, ExcelRowCap, ExcelRowCap + 1}

RowTails == {<<>>, <<EmptyRow>>, <<EmptyRow, PartRow>>}

SheetDatas ==
    {<<>>} \cup
    {<<h>> \o Repeat(DataRow, n) \o tail :
        h \in HeaderRows, n \in RowBlocks, tail \in RowTails}

Workbooks ==
    UNION {[1..n -> SheetDatas] : n \in 0..MaxSheets}

\* jsonData[0]?.map(h => String(h || '').trim()) || []
ExcelHeaders(jsonData) == [i \in 1..Len(jsonData[1]) |-> Trim(jsonData[1][i])]

\* jsonData.slice(1).filter(row => row.some(cell => cell !== ''))
ExcelRows(jsonData) ==
    SelectSeq(SubSeq(jsonData, 2, Len(jsonData)),
              LAMBDA row : \E i \in 1..Len(row) : row[i] # EmptyCell)

ExcelTable(sheetIndex, jsonData) ==
    LET headers == ExcelHeaders(jsonData)
        rows == ExcelRows(jsonData)
    IN  [name |-> sheetIndex,
         headers |-> headers,
         rows |-> Slice(rows, ExcelRowCap),
         insights |-> [rowCount |-> Len(rows),
                       columnCount |-> Len(headers),
                       sheetIndex |-> sheetIndex,
                       preview |-> Slice(rows, ExcelPreview)]]

\* the body of sheets.forEach: the tables after the sheets from position i
RECURSIVE ExcelTables(_, _, _)
ExcelTables(sheets, i, tables) ==
    IF i > Len(sheets) THEN tables
    ELSE LET jsonData == sheets[i]
         IN  IF Len(jsonData) = 0
             THEN ExcelTables(sheets, i + 1, tables)
             ELSE IF Len(ExcelHeaders(jsonData)) > 0
             THEN ExcelTables(sheets, i + 1,
                              Append(tables, ExcelTable(i - 1, jsonData)))
             ELSE ExcelTables(sheets, i + 1, tables)

RECURSIVE TotalRows(_, _)
TotalRows(sheets, i) ==
    IF i > Len(sheets) THEN 0
    ELSE (IF Len(sheets[i]) = 0 THEN 0 ELSE Len(ExcelRows(sheets[i])))
            + TotalRows(sheets, i + 1)

ExcelInit ==
    /\ pc = "excel-read"
    /\ workbook \in Workbooks
    /\ excelResult = Unset
    /\ ParseIdle /\ CsvIdle /\ ChartsIdle
    /\ ObjectIdle /\ HistoryIdle /\ MessageIdle /\ ContextIdle /\ ReportIdle
    /\ StoreIdle /\ PrismaIdle /\ AttachIdle

CallParseExcel ==
    /\ pc = "excel-read"
    /\ excelResult' = [tables |-> ExcelTables(workbook, 1, <<>>),
                       sheets |-> Len(workbook),
                       totalRows |-> TotalRows(workbook, 1)]
    /\ pc' = "excel-parsed"
    /\ UNCHANGED <<workbook, parseVars, csvVars, chartVars, objectVars,
                   historyVars, messageVars, contextVars, reportVars,
                   storeVars, prismaVars, readyFiles>>

ExcelNext == CallParseExcel

SpecExcel == ExcelInit /\ [][ExcelNext]_vars

(***************************************************************************)
(* C23.  parseExcel emits one Table for each sheet that has at least one   *)
(* row below its header row, in sheet order, and none for a sheet that is  *)
(* empty or holds only a header row; the headers of a table are the cells  *)
(* of the first row as trimmed text, its rows are the rows below with the  *)
(* entirely empty ones dropped, cut to the first 1000, and rowCount is the *)
(* number of those rows before the cut.                                    *)
(***************************************************************************)
SheetsWithData ==
    SelectSeq([i \in 1..Len(workbook) |-> [index |-> i - 1, data |-> workbook[i]]],
              LAMBDA sheet : Len(sheet.data) >= 2)

C23_OneTablePerSheetWithData ==
    pc = "excel-parsed" =>
        LET tables == excelResult.tables
        IN  /\ Len(tables) = Len(SheetsWithData)
            /\ \A k \in 1..Len(tables) :
                LET sheet == SheetsWithData[k]
                    rows == ExcelRows(sheet.data)
                IN  /\ tables[k].name = sheet.index
                    /\ tables[k].headers = ExcelHeaders(sheet.data)
                    /\ tables[k].rows = Slice(rows, ExcelRowCap)
                    /\ tables[k].insights.rowCount = Len(rows)

(***************************************************************************)
(* The files of an accepted message, from the store to the context: the    *)
(* client sorts the ready files into filesContent and raw 'files', the     *)
(* route builds the context from what it received.                         *)
(***************************************************************************)
MaxReady == 2

\* a ready entry of the store: the length of its content, the number of
\* its parsed tables, its parsed metadata and the text length of its rawFile
ReadyFiles ==
    [name : FileNamesSent, content : {0, 1}, tables : {0, 1},
     metadata : Metadatas, text : {0, RawCap + 1}]

\* f.content || (f.parsedMetadata && f.parsedMetadata.tables
\*               && f.parsedMetadata.tables.length > 0)
HasContent(f) == f.content # 0 \/ f.tables > 0

filesWithContent(files) == SelectSeq(files, HasContent)

filesWithoutContent(files) == SelectSeq(files, LAMBDA f : ~HasContent(f))

\* the entry of filesContent built from a ready file
SentContent(f) == [name |-> f.name, content |-> f.content, metadata |-> f.metadata]

\* file.rawFile, as the route receives it
SentRaw(f) == [name |-> f.name, readable |-> TRUE, text |-> f.text]

AttachInit ==
    /\ pc = "send-accepted"
    /\ readyFiles \in ListsOf(ReadyFiles, MaxReady)
    /\ filesContent = <<>> /\ uploadedFiles = <<>> /\ documentsContext = Unset
    /\ ParseIdle /\ CsvIdle /\ ChartsIdle
    /\ ObjectIdle /\ HistoryIdle /\ MessageIdle /\ ReportIdle
    /\ StoreIdle /\ ExcelIdle /\ PrismaIdle

\* sendMessage fills the form; the route reads filesContent and 'files'
AttachFiles ==
    /\ pc = "send-accepted"
    /\ filesContent' =
          [i \in 1..Len(filesWithContent(readyFiles)) |->
              SentContent(filesWithContent(readyFiles)[i])]
    /\ uploadedFiles' =
          [i \in 1..Len(filesWithoutContent(readyFiles)) |->
              SentRaw(filesWithoutContent(readyFiles)[i])]
    /\ pc' = "context-asked"
    /\ UNCHANGED <<documentsContext, parseVars, csvVars, chartVars,
                   objectVars, historyVars, messageVars, reportVars,
                   clientVars>>

AttachNext == AttachFiles \/ BuildContext

SpecAttach == AttachInit /\ [][AttachNext]_vars

(***************************************************************************)
(* C28.  Every ready file of an accepted message has its section in the    *)
(* document context the model receives: a ready file without parsed        *)
(* content, sent as raw bytes, has one also when another file of the same  *)
(* message was sent as pre-parsed content.                                 *)
(***************************************************************************)
C28_EveryReadyFileInContext ==
    pc = "context-built" =>
        /\ Len(SectionHeads) = Len(readyFiles)
        /\ \A i \in 1..Len(readyFiles) :
              \E k \in 1..Len(SectionHeads) :
                  SectionHeads[k].name = readyFiles[i].name

(***************************************************************************)
(* The persistence stand-in: prisma.report.create on the module-level      *)
(* reports array.  The clock is Date.now() in milliseconds; it moves       *)
(* between calls or stands still.                                          *)
(***************************************************************************)
MaxReports == 3

MaxTicks == 3

\* the data of a create call: the query of the request it serves
ReportQueries == {"q1", "q2"}

\* `report_${Date.now()}`
ReportId(t) == <<"report_">> \o Decimal(t)

PrismaInit ==
    /\ pc = "prisma"
    /\ reports = <<>>
    /\ clock = 0
    /\ ParseIdle /\ CsvIdle /\ ChartsIdle
    /\ ObjectIdle /\ HistoryIdle /\ MessageIdle /\ ContextIdle /\ ReportIdle
    /\ StoreIdle /\ ExcelIdle /\ AttachIdle

PrismaFrame ==
    UNCHANGED <<pc, parseVars, csvVars, chartVars, objectVars, historyVars,
                messageVars, contextVars, reportVars, storeVars, excelVars,
                readyFiles>>

\* prisma.report.create({ data })
reportCreate ==
    /\ pc = "prisma"
    /\ Len(reports) < MaxReports
    /\ \E query \in ReportQueries :
        reports' = Append(reports, [id |-> ReportId(clock), query |-> query])
    /\ UNCHANGED clock
    /\ PrismaFrame

\* a millisecond passes
Tick ==
    /\ pc = "prisma"
    /\ clock < MaxTicks
    /\ clock' = clock + 1
    /\ UNCHANGED reports
    /\ PrismaFrame

PrismaNext == reportCreate \/ Tick

SpecPrisma == PrismaInit /\ [][PrismaNext]_vars

(***************************************************************************)
(* C29.  Every report created through the persistence stand-in has an      *)
(* identifier different from that of every report created before it, also  *)
(* when two creations fall into the same clock tick.                       *)
(***************************************************************************)
C29_ReportIdsDistinct ==
    \A i, j \in 1..Len(reports) : i # j => reports[i].id # reports[j].id

====
